---- MODULE Spec2Model ----
(***************************************************************************)
(* Streaming analysis pipeline of the v2 services: the per-request         *)
(* AnalysisContext, the AnalysisService implementations and the            *)
(* V2AnalysisRunner.stream_run orchestrator that multiplexes their chunks  *)
(* into one event stream.                                                  *)
(*                                                                         *)
(* A text is represented by its number of words (NoneT is Python's None,   *)
(* 0 is the empty string); TextLen gives its length in characters.         *)
(* A step of a service task runs from one suspension point of the event    *)
(* loop to the next (an LLM call, a sleep); code without an await between  *)
(* two yields is one step.                                                 *)
(***************************************************************************)
EXTENDS Integers, Sequences, FiniteSets, TLC

\* ---------------------------------------------------------------- bounds
MaxInterim == 1
MaxJsonChunks == 1
MaxRecursion == 2
MaxRetries == 2
MaxKeys == 6
MaxLiveChunks == 1
ShortWords == 3
MidWords == 7
LongWords == 12

\* ------------------------------------------------------- program constants
MinWords == 10
PsychMinWords == 5
MinChars == 10

NoneT == -1
NoIdx == -1

InputTexts == {NoneT, 0, ShortWords, MidWords, LongWords}
StreamTexts == {0, ShortWords, LongWords}
AudioKinds == {"none", "ok", "corrupt", "empty_segment"}

Services ==
    {"transcription", "audio_analysis", "quantitative_metrics", "manipulation",
     "argument", "enhanced_metrics", "credibility", "psychological"}
TaskServices == Services \ {"transcription"}

\* the service configurations a runner is built with: every service alone,
\* and the pairs whose members read or write the same parts of the context
\* or share the event queue with a failing or never-ending neighbour
TaskConfigs ==
    {{}} \cup {{s} : s \in TaskServices} \cup
    {{"enhanced_metrics", "credibility"},
     {"audio_analysis", "quantitative_metrics"},
     {"quantitative_metrics", "psychological"},
     {"quantitative_metrics", "credibility"},
     {"argument", "credibility"},
     {"audio_analysis", "manipulation"}}

\* Python truthiness of an Optional[str] and of Optional[bytes]
Truthy(t) == t # NoneT /\ t # 0
AudioTruthy(a) == a # "none"
\* len(text) for a text of single-letter words separated by blanks
TextLen(t) == IF t <= 0 THEN 0 ELSE 2 * t - 1
\* len(text.split())
WordCount(t) == IF t <= 0 THEN 0 ELSE t
Min(a, b) == IF a < b THEN a ELSE b
Max(a, b) == IF a > b THEN a ELSE b

\* Python's `a or b` on texts
OrText(a, b) == IF Truthy(a) THEN a ELSE b

\* ------------------------------------------------------------ result chunks
Chunk(p, ph, i, e) ==
    [kind |-> "chunk", partial |-> p, phase |-> ph, idx |-> i, err |-> e]
\* a payload that is not a ResultChunk: str(ex), {} or the transcript payloads
Plain(k) ==
    [kind |-> k, partial |-> "absent", phase |-> "absent", idx |-> NoIdx, err |-> FALSE]
\* the dict analyze() falls back to when the stream produced nothing
NoResultsProduced == Chunk("false", "final", NoIdx, TRUE)

NoAgg == [present |-> FALSE, services |-> <<>>, errors |-> {}]

UpdateEvent(svc, payload) ==
    [event |-> "analysis.update", service |-> svc, payload |-> payload,
     text |-> NoneT, agg |-> NoAgg, completed |-> 0, total |-> 0]
TranscriptEvent(kind, text) ==
    [event |-> "analysis.update", service |-> "transcript", payload |-> Plain(kind),
     text |-> text, agg |-> NoAgg, completed |-> 0, total |-> 0]
ProgressEvent(svc, c, t) ==
    [event |-> "analysis.progress", service |-> svc, payload |-> Plain("none"),
     text |-> NoneT, agg |-> NoAgg, completed |-> c, total |-> t]
DoneEvent(text, agg) ==
    [event |-> "analysis.done", service |-> "none", payload |-> Plain("none"),
     text |-> text, agg |-> agg, completed |-> 0, total |-> 0]

QueueEvent(type, svc, payload) ==
    [type |-> type, service |-> svc, payload |-> payload]

VARIABLES
    \* request inputs and configuration
    transcript, audio, factories, ctxMethods, factory_order, tsFormat,
    clientStreams,
    \* AnalysisContext
    transcript_partial, transcript_final, service_results,
    acoustic_metrics, linguistic_metrics,
    \* stream_run locals
    rpc, transcript_text, generated, nInterim, tsEvent, transcription_failed,
    event_queue, pending, aggregate, completed, out,
    \* V2AnalysisRunner.run, the caller that reads stream_run to its end
    run_result,
    \* service tasks
    tpc, tpass, tidx, tlast, njson, emitted, depth, llm_failed,
    \* GeminiClientV2: configuration, the call in progress and what it produced
    cop, max_retries, hasGenerativeModel, live,
    cpc, surface, attempt, attempts, sleeps, cret, cout, listings,
    \* TranscriptionService.stream_analyze called on its own
    caudio, hasTranscribeStream, ts_ctx, ts_read, ts_trace,
    \* V2AnalysisRunner over its requests: the service instances built and used
    lpc, request, req_audio, instances, used,
    \* CredibilityScoringService._calculate_credibility_score called on its own
    metrics, baseline, spc, scored

inputVars == <<transcript, audio, factories, ctxMethods, factory_order>>
ctxVars == <<transcript_partial, transcript_final, service_results,
             acoustic_metrics, linguistic_metrics>>
runVars == <<rpc, transcript_text, generated, nInterim, tsEvent,
             transcription_failed,
             event_queue, pending, aggregate, completed, out, run_result>>
taskVars == <<tpc, tpass, tidx, tlast, njson, emitted, depth, llm_failed>>
genVars == <<cop, max_retries, hasGenerativeModel, live,
             cpc, surface, attempt, attempts, sleeps, cret, cout>>
genVars_but_cpc == <<cop, max_retries, hasGenerativeModel, live,
                     surface, attempt, attempts, sleeps, cret, cout>>
tsVars == <<caudio, hasTranscribeStream, ts_ctx, ts_read, ts_trace>>
clientVars == <<genVars, listings, tsVars>>
runnerVars == <<inputVars, tsFormat, clientStreams, ctxVars, runVars, taskVars>>
lifeVars == <<lpc, request, req_audio, instances, used>>
scoreVars == <<metrics, baseline, spc, scored>>
auxVars == <<lifeVars, scoreVars>>
vars == <<runnerVars, clientVars, auxVars>>

Tasks == factories \ {"transcription"}

\* order in which stream_run creates the tasks: audio analysis first, then
\* the priority list, then the remaining services in the order of their
\* factories (the sort is stable)
Rank(s) ==
    CASE s = "audio_analysis" -> 0
      [] s = "quantitative_metrics" -> 1
      [] s = "manipulation" -> 2
      [] s = "argument" -> 3
      [] OTHER -> 4

\* the services the priority list does not name, and the orders in which
\* their factories can stand in the list the runner is built with
Unprioritised(fs) == {s \in fs \ {"transcription"} : Rank(s) = 4}
FactoryOrders(fs) ==
    {o \in [1..Cardinality(Unprioritised(fs)) -> Unprioritised(fs)] :
        \A i, j \in DOMAIN o : i # j => o[i] # o[j]}

\* the state at the start of stream_run
RunnerInit ==
    /\ factories \in {c \cup t : c \in TaskConfigs, t \in {{}, {"transcription"}}}
    \* only the psychological service tells a 7-word text from a shorter one
    /\ transcript \in IF "psychological" \in factories THEN InputTexts
                      ELSE InputTexts \ {MidWords}
    \* only the audio analysis service decodes the audio
    /\ audio \in IF "audio_analysis" \in factories THEN AudioKinds ELSE {"none", "ok"}
    /\ ctxMethods \in BOOLEAN
    /\ factory_order \in FactoryOrders(factories)
    /\ tsFormat = "unused"
    /\ clientStreams = TRUE
    /\ transcript_partial = 0
    /\ transcript_final = NoneT
    /\ service_results = [s \in Services |-> "unset"]
    /\ acoustic_metrics = FALSE
    /\ linguistic_metrics = FALSE
    /\ rpc = "init"
    /\ transcript_text = transcript
    /\ generated = FALSE
    /\ nInterim = 0
    /\ tsEvent = [kind |-> "chunk", text |-> 0]
    /\ transcription_failed = FALSE
    /\ run_result = "running"
    /\ event_queue = <<>>
    /\ pending = {}
    /\ aggregate = [present |-> TRUE, services |-> <<>>, errors |-> {}]
    /\ completed = 0
    /\ out = <<>>
    /\ tpc = [s \in TaskServices |-> "idle"]
    /\ tpass = [s \in TaskServices |-> 1]
    /\ tidx = [s \in TaskServices |-> 0]
    /\ tlast = [s \in TaskServices |-> Plain("none")]
    /\ njson = [s \in TaskServices |-> 0]
    /\ emitted = [s \in TaskServices |-> <<>>]
    /\ depth = 0
    /\ llm_failed = {}

\* no call of the client is followed separately while stream_run runs
ClientIdle ==
    /\ cop = "none"
    /\ max_retries = 2
    /\ hasGenerativeModel = TRUE
    /\ live = FALSE
    /\ cpc = "idle"
    /\ surface = "none"
    /\ attempt = 0
    /\ attempts = 0
    /\ sleeps = <<>>
    /\ cret = [kind |-> "none", n |-> 0]
    /\ cout = <<>>
    /\ listings = 0
    /\ caudio = FALSE
    /\ hasTranscribeStream = TRUE
    /\ ts_ctx = "none"
    /\ ts_read = 0
    /\ ts_trace = <<>>

\* one request is followed on its own: no runner is followed over its requests
LifeIdle ==
    /\ lpc = "none"
    /\ request = 0
    /\ req_audio = FALSE
    /\ instances = {}
    /\ used = {}

\* no call of _calculate_credibility_score is followed on its own
NoBaselineEntry == [present |-> FALSE, mean |-> 0, std |-> 0, mad |-> 0]
NoBaseline == [given |-> FALSE, entry |-> NoBaselineEntry, has_quality |-> FALSE]
NoScore == [outcome |-> "none"]
ScoreIdle ==
    /\ metrics = <<>>
    /\ baseline = NoBaseline
    /\ spc = "none"
    /\ scored = NoScore

Init == RunnerInit /\ ClientIdle /\ LifeIdle /\ ScoreIdle

\* ------------------------------------------------- AnalysisContext methods
\* AnalysisContext.update_transcript_partial
update_transcript_partial(new_partial) ==
    /\ transcript_partial' = new_partial
    /\ UNCHANGED transcript_final

\* AnalysisContext.finalize_transcript
finalize_transcript(final_text) ==
    /\ transcript_final' = final_text
    /\ transcript_partial' = final_text

\* ------------------------------------------ stream_run: transcription phase
\* GeminiClientV2.transcribe returns the text "Transcription failed: <e>"
\* when the call fails: a text of a few or of many words, never empty
FailureTexts == StreamTexts \ {0}

\* V2AnalysisRunner._ensure_transcript: the (text, auto_generated, failed)
\* triples it can return, failed telling that the transcribe call failed
EnsureTranscript ==
    IF Truthy(transcript) THEN {<<transcript, FALSE, FALSE>>}
    ELSE IF AudioTruthy(audio)
    THEN {<<t, TRUE, FALSE>> : t \in StreamTexts} \cup {<<t, TRUE, TRUE>> : t \in FailureTexts}
    ELSE {<<OrText(transcript, 0), FALSE, FALSE>>}

\* stream_run up to the choice between the streaming transcription service
\* and _ensure_transcript
RunnerStart ==
    /\ rpc = "init"
    /\ IF "transcription" \in factories /\ AudioTruthy(audio)
       THEN /\ rpc' = "transcribing"
            /\ tsFormat' \in {"head", "theirs", "events"}
            /\ clientStreams' \in IF tsFormat' = "events" THEN {TRUE} ELSE BOOLEAN
            /\ UNCHANGED <<transcript_text, generated, transcription_failed>>
       ELSE /\ \E r \in EnsureTranscript :
                 /\ transcript_text' = r[1]
                 /\ generated' = r[2]
                 /\ transcription_failed' = r[3]
            /\ rpc' = "first_done"
            /\ UNCHANGED <<tsFormat, clientStreams>>
    /\ UNCHANGED <<inputVars, ctxVars, nInterim, tsEvent, event_queue, pending,
                   aggregate, completed, out, taskVars, run_result, clientVars, auxVars>>

\* The transcription service yields an interim partial transcript p.
\* TranscriptionService.stream_analyze has an unresolved merge: its HEAD side
\* stores p in the context and yields a coarse chunk; its other side calls
\* update_transcript_partial inside try/except and then builds the event from
\* the undefined name svc_name, which raises NameError into stream_run. A
\* service injected through service_factories ("events") yields
\* {'interim': True, 'partial_transcript': p}, the event stream_run forwards.
TranscribeInterim(p) ==
    /\ rpc = "transcribing"
    /\ clientStreams
    /\ nInterim < MaxInterim
    /\ nInterim' = nInterim + 1
    /\ IF tsFormat = "head" \/ (tsFormat = "theirs" /\ ctxMethods)
       THEN update_transcript_partial(p)
       ELSE UNCHANGED <<transcript_partial, transcript_final>>
    /\ tsEvent' = [kind |-> CASE tsFormat = "head" -> "chunk"
                              [] tsFormat = "theirs" -> "raise"
                              [] OTHER -> "interim",
                   text |-> p]
    /\ rpc' = "handle_ts"
    /\ UNCHANGED <<inputVars, tsFormat, clientStreams, service_results,
                   acoustic_metrics, linguistic_metrics, transcript_text,
                   generated, event_queue, pending, aggregate, completed, out,
                   taskVars,
                   transcription_failed, run_result, clientVars, auxVars>>

\* The transcription service yields its terminal event with transcript t:
\* TranscriptionService.stream_analyze sets ctx.transcript_final and yields
\* its final chunk, which has no 'payload'; an injected service yields
\* {'payload': {'transcript': t}}.
TranscribeFinal(t) ==
    /\ rpc = "transcribing"
    /\ clientStreams
    /\ IF tsFormat = "events"
       THEN /\ tsEvent' = [kind |-> "payload", text |-> t]
            /\ UNCHANGED transcript_final
       ELSE /\ tsEvent' = [kind |-> "chunk", text |-> t]
            /\ transcript_final' = t
    /\ transcription_failed' \in
          IF tsFormat # "events" /\ t \in FailureTexts THEN BOOLEAN ELSE {FALSE}
    /\ rpc' = "handle_ts"
    /\ UNCHANGED <<inputVars, tsFormat, clientStreams, transcript_partial,
                   service_results, acoustic_metrics, linguistic_metrics,
                   transcript_text, generated, nInterim, event_queue, pending,
                   aggregate, completed, out, taskVars, run_result, clientVars, auxVars>>

\* TranscriptionService.stream_analyze, non-streaming path (the client has no
\* transcribe_stream): the empty coarse chunk it yields first
TranscribeFallback ==
    /\ rpc = "transcribing"
    /\ ~clientStreams
    /\ tsEvent' = [kind |-> "chunk", text |-> 0]
    /\ rpc' = "handle_ts"
    /\ UNCHANGED <<inputVars, tsFormat, clientStreams, ctxVars, transcript_text,
                   generated, nInterim, event_queue, pending, aggregate,
                   completed, out, taskVars,
                   transcription_failed, run_result, clientVars, auxVars>>

\* stream_run's handling of one event of the transcription service. An
\* exception of the service leaves stream_run through the `async for`. An
\* event with a truthy 'interim' is forwarded after update_transcript_partial,
\* which only a caller-supplied context has. Any other event is taken for the
\* final transcript: transcript_text becomes payload['transcript'] if the
\* event has one and keeps its value otherwise; finalize_transcript is called
\* inside try/except; the loop is left.
RunnerHandleTranscriptEvent ==
    /\ rpc = "handle_ts"
    /\ CASE tsEvent.kind = "raise" ->
              /\ rpc' = "raised"
              /\ UNCHANGED <<transcript_partial, transcript_final, out,
                             transcript_text, generated>>
         [] tsEvent.kind = "interim" ->
              IF ctxMethods
              THEN /\ update_transcript_partial(tsEvent.text)
                   /\ out' = Append(out, TranscriptEvent("partial_transcript", tsEvent.text))
                   /\ rpc' = "transcribing"
                   /\ UNCHANGED <<transcript_text, generated>>
              ELSE /\ rpc' = "raised"
                   /\ UNCHANGED <<transcript_partial, transcript_final, out,
                                  transcript_text, generated>>
         [] OTHER ->
              LET text == IF tsEvent.kind = "payload" THEN tsEvent.text
                          ELSE transcript_text
              IN  /\ generated' = TRUE
                  /\ transcript_text' = text
                  /\ IF ctxMethods THEN finalize_transcript(text)
                     ELSE UNCHANGED <<transcript_partial, transcript_final>>
                  /\ out' = Append(out, TranscriptEvent("transcript", text))
                  /\ rpc' = "first_done"
    /\ UNCHANGED <<inputVars, tsFormat, clientStreams, tsEvent, service_results,
                   acoustic_metrics, linguistic_metrics, nInterim, event_queue,
                   pending, aggregate, completed, taskVars,
                   transcription_failed, run_result, clientVars, auxVars>>

\* the first `analysis.done` of stream_run
EmitTranscriptDone ==
    /\ rpc = "first_done"
    /\ out' = Append(out, DoneEvent(transcript_text, NoAgg))
    /\ rpc' = "start_tasks"
    /\ UNCHANGED <<inputVars, tsFormat, clientStreams, ctxVars, transcript_text,
                   generated, nInterim, tsEvent, event_queue, pending, aggregate,
                   completed, taskVars,
                   transcription_failed, run_result, clientVars, auxVars>>

\* _build_services and the creation of one task per non-transcription service
StartTasks ==
    /\ rpc = "start_tasks"
    /\ tpc' = [s \in TaskServices |-> IF s \in Tasks THEN "start" ELSE "idle"]
    /\ pending' = Tasks
    /\ rpc' = "consume"
    /\ UNCHANGED <<inputVars, tsFormat, clientStreams, ctxVars, transcript_text,
                   generated, nInterim, tsEvent, event_queue, aggregate, completed, out,
                   tpass, tidx, tlast, njson, emitted, depth,
                   llm_failed,
                   transcription_failed, run_result, clientVars, auxVars>>

\* ------------------------------------------------ _service_stream_to_queue
\* the queue events for the chunks a stream yields
PartialEvents(s, cs) == [i \in 1..Len(cs) |-> QueueEvent("partial", s, cs[i])]

\* AnalysisService.analyze: the last chunk of the stream, or the fallback dict
DefaultAnalyze(cs, last) ==
    IF Len(cs) > 0 THEN cs[Len(cs)]
    ELSE IF last.kind = "none" THEN NoResultsProduced ELSE last

\* the analyze of CredibilityServiceV2 and of EnhancedMetricsService: the last
\* chunk that is not partial, or {}
RECURSIVE LastNonPartial(_)
LastNonPartial(cs) ==
    IF Len(cs) = 0 THEN Plain("empty")
    ELSE IF cs[Len(cs)].partial # "true" THEN cs[Len(cs)]
    ELSE LastNonPartial(SubSeq(cs, 1, Len(cs) - 1))

\* the positions of stream_run at which the service tasks exist and run
TaskPhases == {"consume", "closed"}

\* creation order by the priority key alone, ties in any order
CreatedBefore_RankOnly(r, s) == Rank(r) < Rank(s)

\* the position of an unprioritised service among the factories
Position(s) == CHOOSE i \in DOMAIN factory_order : factory_order[i] = s

\* the task of r is created before the task of s
CreatedBefore(r, s) ==
    \/ Rank(r) < Rank(s)
    \/ Rank(r) = 4 /\ Rank(s) = 4 /\ Position(r) < Position(s)

\* the event loop runs the tasks in creation order up to their first await
CanStart(s) ==
    /\ rpc \in TaskPhases
    /\ s \in Tasks
    /\ tpc[s] = "start"
    /\ tpass[s] = 1
    /\ \A r \in Tasks : CreatedBefore(r, s) => tpc[r] # "start"

\* a task that runs to its end without suspending: its chunks, then the
\* payload of the `final` call the runner makes after the stream
FinishTask(s, cs, final_payload) ==
    /\ event_queue' = event_queue \o PartialEvents(s, cs)
                        \o <<QueueEvent("final", s, final_payload)>>
    /\ emitted' = [emitted EXCEPT ![s] = @ \o cs]
    /\ tpc' = [tpc EXCEPT ![s] = "done"]

\* the except branch of _service_stream_to_queue
FailTask(s, cs) ==
    /\ event_queue' = event_queue \o PartialEvents(s, cs)
                        \o <<QueueEvent("error", s, Plain("str"))>>
    /\ emitted' = [emitted EXCEPT ![s] = @ \o cs]
    /\ tpc' = [tpc EXCEPT ![s] = "done"]

\* ------------------------------------------------------ AudioAnalysisService
\* AudioAnalysisService.stream_analyze
AudioStream(a) ==
    CASE a = "ok" -> <<Chunk("true", "coarse", 0, FALSE), Chunk("false", "final", 1, FALSE)>>
      [] a = "empty_segment" ->
            <<Chunk("true", "coarse", 0, FALSE), Chunk("false", "final", 0, TRUE)>>
      [] OTHER -> <<Chunk("false", "final", 0, TRUE)>>

\* AudioAnalysisService.analyze: a dict without partial, phase and chunk_index
AudioAnalyze(a) == Chunk("absent", "absent", NoIdx, a # "ok")

AudioTask ==
    /\ CanStart("audio_analysis")
    /\ FinishTask("audio_analysis", AudioStream(audio), AudioAnalyze(audio))
    /\ UNCHANGED <<inputVars, tsFormat, clientStreams, ctxVars, rpc,
                   transcript_text, generated, nInterim, tsEvent, pending,
                   aggregate, completed, out, tpass, tidx, tlast, njson, depth,
                   llm_failed,
                   transcription_failed, run_result, clientVars, auxVars>>

\* ---------------------------------------------------- EnhancedMetricsService
\* the transcript the final phase of EnhancedMetricsService works on
EnhancedFinalTranscript ==
    IF Truthy(transcript_final) THEN transcript_final
    ELSE IF Truthy(transcript_text) THEN transcript_text ELSE NoneT

\* EnhancedMetricsService.stream_analyze
EnhancedStream ==
    (IF Truthy(transcript_text) \/ Truthy(transcript_partial)
       THEN <<Chunk("true", "coarse", 0, FALSE)>> ELSE <<>>)
    \o (IF Truthy(EnhancedFinalTranscript)
       THEN <<Chunk("false", "final", 1, FALSE)>> ELSE <<>>)

EnhancedMetricsTask ==
    /\ CanStart("enhanced_metrics")
    /\ linguistic_metrics' = (linguistic_metrics \/ Len(EnhancedStream) > 0)
    /\ acoustic_metrics' =
          (acoustic_metrics \/ (AudioTruthy(audio) /\ Truthy(EnhancedFinalTranscript)))
    /\ FinishTask("enhanced_metrics", EnhancedStream, LastNonPartial(EnhancedStream))
    /\ UNCHANGED <<inputVars, tsFormat, clientStreams, transcript_partial,
                   transcript_final, service_results, rpc, transcript_text,
                   generated, nInterim, tsEvent, pending, aggregate, completed,
                   out, tpass, tidx, tlast, njson, depth,
                   llm_failed,
                   transcription_failed, run_result, clientVars, auxVars>>

\* ------------------------------------------------------ CredibilityServiceV2
\* a caller-supplied context has no acoustic_metrics attribute until the
\* enhanced metrics service assigns one, and no baseline_profile at all
CredibilityRaisesOf(am) == ctxMethods /\ ~am
CredibilityRaises == CredibilityRaisesOf(acoustic_metrics)

\* CredibilityServiceV2.stream_analyze
\* for the metrics am and lm it finds in the context
CredibilityStreamOf(am, lm) ==
    IF ctxMethods
    THEN IF Truthy(transcript_final)
         THEN <<Chunk("false", "final", 1, TRUE)>> ELSE <<>>
    ELSE (IF am \/ lm
            THEN <<Chunk("true", "coarse", 0, FALSE)>> ELSE <<>>)
         \o (IF Truthy(transcript_final) /\ (am \/ lm)
            THEN <<Chunk("false", "final", 1, FALSE)>> ELSE <<>>)

CredibilityStream == CredibilityStreamOf(acoustic_metrics, linguistic_metrics)

\* a wrong key: the score lands in the entry of the metrics service
CredibilityKey_OtherEntry == "enhanced_metrics"

\* the key of service_results under which the score is stored
CredibilityKey == "credibility"

\* whether the stream stores the score in service_results["credibility"]
CredibilityWrites ==
    ~ctxMethods /\ Truthy(transcript_final) /\ (acoustic_metrics \/ linguistic_metrics)

CredibilityTask ==
    /\ CanStart("credibility")
    /\ IF CredibilityRaises
       THEN /\ FailTask("credibility", <<>>)
            /\ UNCHANGED service_results
       ELSE /\ FinishTask("credibility", CredibilityStream, LastNonPartial(CredibilityStream))
            /\ service_results' =
                 IF CredibilityWrites
                 THEN [service_results EXCEPT ![CredibilityKey] = "final"]
                 ELSE service_results
    /\ UNCHANGED <<inputVars, tsFormat, clientStreams, transcript_partial,
                   transcript_final, acoustic_metrics, linguistic_metrics, rpc,
                   transcript_text, generated, nInterim, tsEvent, pending,
                   aggregate, completed, out, tpass, tidx, tlast, njson, depth,
                   llm_failed,
                   transcription_failed, run_result, clientVars, auxVars>>

\* ------------------------------------------------ QuantitativeMetricsService
\* QuantitativeMetricsService.stream_analyze up to the query_json call of
\* analyze_interaction_metrics; without a text that call is never made
\* (ValueError, local fallback) and neither is the one of analyze
QuantStart ==
    /\ CanStart("quantitative_metrics")
    /\ IF Truthy(transcript_text)
       THEN /\ event_queue' = event_queue \o
                 PartialEvents("quantitative_metrics", <<Chunk("true", "coarse", 0, FALSE)>>)
            /\ emitted' = [emitted EXCEPT !["quantitative_metrics"] =
                                Append(@, Chunk("true", "coarse", 0, FALSE))]
            /\ tpc' = [tpc EXCEPT !["quantitative_metrics"] = "q_llm"]
       ELSE FinishTask("quantitative_metrics",
                       <<Chunk("true", "coarse", 0, FALSE), Chunk("false", "final", 1, FALSE)>>,
                       Chunk("absent", "absent", NoIdx, FALSE))
    /\ UNCHANGED <<inputVars, tsFormat, clientStreams, ctxVars, rpc,
                   transcript_text, generated, nInterim, tsEvent, pending,
                   aggregate, completed, out, tpass, tidx, tlast, njson, depth,
                   llm_failed,
                   transcription_failed, run_result, clientVars, auxVars>>

\* query_json returns a result or, when the call failed all its retries, its
\* fallback map: either way the final chunk of the stream with errors [],
\* then the runner's call of analyze, which queries the LLM again
QuantLLMReturn ==
    /\ rpc \in TaskPhases
    /\ tpc["quantitative_metrics"] = "q_llm"
    /\ event_queue' = event_queue \o
          PartialEvents("quantitative_metrics", <<Chunk("false", "final", 1, FALSE)>>)
    /\ emitted' = [emitted EXCEPT !["quantitative_metrics"] =
                        Append(@, Chunk("false", "final", 1, FALSE))]
    /\ tpc' = [tpc EXCEPT !["quantitative_metrics"] = "q_analyze"]
    /\ tpass' = [tpass EXCEPT !["quantitative_metrics"] = 2]
    /\ \E failed \in BOOLEAN :
          llm_failed' = IF failed THEN llm_failed \cup {"quantitative_metrics"}
                        ELSE llm_failed
    /\ UNCHANGED <<inputVars, tsFormat, clientStreams, ctxVars, rpc,
                   transcript_text, generated, nInterim, tsEvent, pending,
                   aggregate, completed, out, tidx, tlast, njson, depth,
                   transcription_failed, run_result, clientVars, auxVars>>

\* QuantitativeMetricsService.analyze returns: the `final` queue event
QuantAnalyzeReturn ==
    /\ rpc \in TaskPhases
    /\ tpc["quantitative_metrics"] = "q_analyze"
    /\ FinishTask("quantitative_metrics", <<>>, Chunk("absent", "absent", NoIdx, FALSE))
    /\ UNCHANGED <<inputVars, tsFormat, clientStreams, ctxVars, rpc,
                   transcript_text, generated, nInterim, tsEvent, pending,
                   aggregate, completed, out, tpass, tidx, tlast, njson, depth,
                   llm_failed,
                   transcription_failed, run_result, clientVars, auxVars>>

\* ------------------------------------------------------ PsychologicalServiceV2
\* the transcript PsychologicalServiceV2.stream_analyze works on
PsychEffective == OrText(transcript_final, OrText(transcript_partial, OrText(transcript_text, 0)))

\* its chunks: the insufficient-transcript chunk, the coarse placeholder, the
\* final chunk (errors [] whether or not the LLM answered)
PsychInsufficient == Chunk("false", "final", NoIdx, TRUE)
PsychCoarse == Chunk("true", "coarse", 0, FALSE)
PsychFinal == Chunk("false", "final", 1, FALSE)

\* PsychologicalServiceV2.stream_analyze up to the query_json call of
\* _perform_analysis; a transcript of fewer than 5 words ends the stream,
\* one of fewer than 10 characters gets the fallback result without a call.
\* The runner's analyze is the inherited one and runs the stream again.
PsychStart ==
    /\ CanStart("psychological")
    /\ IF WordCount(PsychEffective) < PsychMinWords
       THEN /\ FinishTask("psychological", <<PsychInsufficient>>, PsychInsufficient)
            /\ UNCHANGED service_results
       ELSE IF TextLen(PsychEffective) < MinChars
       THEN /\ FinishTask("psychological", <<PsychCoarse, PsychFinal>>, PsychFinal)
            /\ service_results' = [service_results EXCEPT !["psychological"] = "final"]
       ELSE /\ event_queue' = event_queue \o PartialEvents("psychological", <<PsychCoarse>>)
            /\ emitted' = [emitted EXCEPT !["psychological"] = Append(@, PsychCoarse)]
            /\ tpc' = [tpc EXCEPT !["psychological"] = "p_llm"]
            /\ UNCHANGED service_results
    /\ UNCHANGED <<inputVars, tsFormat, clientStreams, transcript_partial,
                   transcript_final, acoustic_metrics, linguistic_metrics, rpc,
                   transcript_text, generated, nInterim, tsEvent, pending,
                   aggregate, completed, out, tpass, tidx, tlast, njson, depth,
                   llm_failed,
                   transcription_failed, run_result, clientVars, auxVars>>

\* query_json returns, with a result or with its fallback map after the last
\* failed retry: the result is stored in the context and the final chunk is
\* yielded. On the first pass the runner queues it and calls analyze; on the
\* second pass analyze returns it and the task puts its `final` event.
PsychLLMReturn ==
    /\ rpc \in TaskPhases
    /\ tpc["psychological"] = "p_llm"
    /\ service_results' = [service_results EXCEPT !["psychological"] = "final"]
    /\ \E failed \in BOOLEAN :
          llm_failed' = IF failed THEN llm_failed \cup {"psychological"} ELSE llm_failed
    /\ IF tpass["psychological"] = 1
       THEN /\ event_queue' = event_queue \o PartialEvents("psychological", <<PsychFinal>>)
            /\ emitted' = [emitted EXCEPT !["psychological"] = Append(@, PsychFinal)]
            /\ tpass' = [tpass EXCEPT !["psychological"] = 2]
            /\ UNCHANGED tpc
       ELSE /\ FinishTask("psychological", <<>>, PsychFinal)
            /\ UNCHANGED tpass
    /\ UNCHANGED <<inputVars, tsFormat, clientStreams, transcript_partial,
                   transcript_final, acoustic_metrics, linguistic_metrics, rpc,
                   transcript_text, generated, nInterim, tsEvent, pending,
                   aggregate, completed, out, tidx, tlast, njson, depth,
                   transcription_failed, run_result, clientVars, auxVars>>

\* ------------------------------------------------------------ ArgumentService
\* ArgumentService.stream_analyze from its start to the json_stream call:
\* the no-transcript exit, the update of ctx.transcript_partial, the
\* len(transcript) of a None transcript, the 10-word gate
ArgGate(t, part, fin) ==
    LET p1 == OrText(part, t)
        p2 == IF ~Truthy(fin) /\ TextLen(t) > TextLen(p1) THEN t ELSE p1
        eff == OrText(fin, OrText(p2, t))
    IN  IF ~Truthy(t) /\ ~(Truthy(part) \/ Truthy(fin))
        THEN [outcome |-> "ended", partial |-> part,
              chunks |-> <<Chunk("false", "final", NoIdx, TRUE)>>]
        ELSE IF ~Truthy(fin) /\ t = NoneT
        THEN [outcome |-> "raise", partial |-> p1, chunks |-> <<>>]
        ELSE IF WordCount(eff) < MinWords
        THEN [outcome |-> "ended", partial |-> p2,
              chunks |-> <<Chunk("true", "coarse", 0, FALSE)>>]
        ELSE [outcome |-> "llm", partial |-> p2, chunks |-> <<>>]

\* a chunk yielded by the stream: queued by the runner on the first pass,
\* kept as `result` by AnalysisService.analyze on the second
ArgYield(c) ==
    IF tpass["argument"] = 1
    THEN /\ event_queue' = event_queue \o PartialEvents("argument", <<c>>)
         /\ emitted' = [emitted EXCEPT !["argument"] = Append(@, c)]
         /\ UNCHANGED tlast
    ELSE /\ tlast' = [tlast EXCEPT !["argument"] = c]
         /\ UNCHANGED <<event_queue, emitted>>

\* the last chunk c of the stream. On the first pass the runner then calls
\* analyze, which runs stream_analyze again up to its json_stream call (the
\* gate passes again: nothing shortens the texts of the context); on the
\* second pass analyze returns c and the task puts its `final` event.
ArgEnd(c) ==
    IF tpass["argument"] = 1
    THEN /\ event_queue' = event_queue \o PartialEvents("argument", <<c>>)
         /\ emitted' = [emitted EXCEPT !["argument"] = Append(@, c)]
         /\ tpass' = [tpass EXCEPT !["argument"] = 2]
         /\ tpc' = [tpc EXCEPT !["argument"] = "coarse_stream"]
         /\ tidx' = [tidx EXCEPT !["argument"] = 0]
         /\ njson' = [njson EXCEPT !["argument"] = 0]
         /\ UNCHANGED tlast
    ELSE /\ event_queue' = Append(event_queue, QueueEvent("final", "argument", c))
         /\ tlast' = [tlast EXCEPT !["argument"] = c]
         /\ tpc' = [tpc EXCEPT !["argument"] = "done"]
         /\ UNCHANGED <<emitted, tpass, tidx, njson>>

ArgStart ==
    /\ CanStart("argument")
    /\ LET g == ArgGate(transcript_text, transcript_partial, transcript_final)
           g2 == ArgGate(transcript_text, g.partial, transcript_final)
       IN  /\ transcript_partial' = g2.partial
           /\ CASE g.outcome = "ended" ->
                     /\ FinishTask("argument", g.chunks, DefaultAnalyze(g2.chunks, Plain("none")))
                     /\ UNCHANGED <<tidx, njson>>
                [] g.outcome = "raise" ->
                     /\ FailTask("argument", <<>>)
                     /\ UNCHANGED <<tidx, njson>>
                [] OTHER ->
                     /\ tpc' = [tpc EXCEPT !["argument"] = "coarse_stream"]
                     /\ tidx' = [tidx EXCEPT !["argument"] = 0]
                     /\ njson' = [njson EXCEPT !["argument"] = 0]
                     /\ UNCHANGED <<event_queue, emitted>>
    /\ UNCHANGED <<inputVars, tsFormat, clientStreams, transcript_final,
                   service_results, acoustic_metrics, linguistic_metrics, rpc,
                   transcript_text, generated, nInterim, tsEvent, pending,
                   aggregate, completed, out, tpass, tlast, depth,
                   llm_failed,
                   transcription_failed, run_result, clientVars, auxVars>>

\* json_stream yields a chunk that is not the done chunk
ArgChunk ==
    /\ rpc \in TaskPhases
    /\ tpc["argument"] \in {"coarse_stream", "final_stream"}
    /\ njson["argument"] < MaxJsonChunks
    /\ ArgYield(Chunk("true",
                      IF tpc["argument"] = "coarse_stream" THEN "coarse" ELSE "final",
                      tidx["argument"], FALSE))
    /\ tidx' = [tidx EXCEPT !["argument"] = @ + 1]
    /\ njson' = [njson EXCEPT !["argument"] = @ + 1]
    /\ UNCHANGED <<inputVars, tsFormat, clientStreams, ctxVars, rpc,
                   transcript_text, generated, nInterim, tsEvent, pending,
                   aggregate, completed, out, tpc, tpass, depth,
                   llm_failed,
                   transcription_failed, run_result, clientVars, auxVars>>

\* the done chunk of the coarse json_stream with a final transcript in the
\* context: the service starts the json_stream of its final phase
ArgCoarseDoneFinalPhase ==
    /\ rpc \in TaskPhases
    /\ tpc["argument"] = "coarse_stream"
    /\ Truthy(transcript_final)
    /\ tpc' = [tpc EXCEPT !["argument"] = "final_stream"]
    /\ njson' = [njson EXCEPT !["argument"] = 0]
    /\ UNCHANGED <<inputVars, tsFormat, clientStreams, ctxVars, rpc,
                   transcript_text, generated, nInterim, tsEvent, event_queue,
                   pending, aggregate, completed, out, tpass, tidx, tlast,
                   emitted, depth,
                   llm_failed,
                   transcription_failed, run_result, clientVars, auxVars>>

\* the done chunk of the coarse json_stream without a final transcript: the
\* coarse data is stored and yielded as the terminal chunk
ArgCoarseDone ==
    /\ rpc \in TaskPhases
    /\ tpc["argument"] = "coarse_stream"
    /\ ~Truthy(transcript_final)
    /\ service_results' = [service_results EXCEPT !["argument"] = "coarse"]
    /\ ArgEnd(Chunk("false", "coarse", tidx["argument"], FALSE))
    /\ UNCHANGED <<inputVars, tsFormat, clientStreams, transcript_partial,
                   transcript_final, acoustic_metrics, linguistic_metrics, rpc,
                   transcript_text, generated, nInterim, tsEvent, pending,
                   aggregate, completed, out, depth,
                   llm_failed,
                   transcription_failed, run_result, clientVars, auxVars>>

\* the done chunk of the final json_stream
ArgFinalDone ==
    /\ rpc \in TaskPhases
    /\ tpc["argument"] = "final_stream"
    /\ service_results' = [service_results EXCEPT !["argument"] = "final"]
    /\ ArgEnd(Chunk("false", "final", tidx["argument"], FALSE))
    /\ UNCHANGED <<inputVars, tsFormat, clientStreams, transcript_partial,
                   transcript_final, acoustic_metrics, linguistic_metrics, rpc,
                   transcript_text, generated, nInterim, tsEvent, pending,
                   aggregate, completed, out, depth,
                   llm_failed,
                   transcription_failed, run_result, clientVars, auxVars>>

\* the injected client raises inside json_stream: the except branch
ArgRaise ==
    /\ rpc \in TaskPhases
    /\ tpc["argument"] \in {"coarse_stream", "final_stream"}
    /\ ArgEnd(Chunk("false", "final", NoIdx, TRUE))
    /\ UNCHANGED <<inputVars, tsFormat, clientStreams, ctxVars, rpc,
                   transcript_text, generated, nInterim, tsEvent, pending,
                   aggregate, completed, out, depth,
                   llm_failed,
                   transcription_failed, run_result, clientVars, auxVars>>

\* -------------------------------------------------------- ManipulationService
\* The class defines stream_analyze twice; the second definition is the one
\* bound to the name. It forwards every json_stream chunk without partial,
\* phase or chunk_index and then awaits self.analyze, the inherited method
\* that consumes stream_analyze again.
ManipChunkShape == Chunk("absent", "absent", NoIdx, FALSE)

ManipStart ==
    /\ CanStart("manipulation")
    /\ tpc' = [tpc EXCEPT !["manipulation"] = "m_stream"]
    /\ UNCHANGED <<inputVars, tsFormat, clientStreams, ctxVars, runVars, clientVars, auxVars,
                   tpass, tidx, tlast, njson, emitted, depth,
                   llm_failed>>

\* json_stream yields a chunk that is not the done chunk
ManipChunk ==
    /\ rpc \in TaskPhases
    /\ tpc["manipulation"] = "m_stream"
    /\ njson["manipulation"] < MaxJsonChunks
    /\ njson' = [njson EXCEPT !["manipulation"] = @ + 1]
    /\ event_queue' = event_queue \o PartialEvents("manipulation", <<ManipChunkShape>>)
    /\ emitted' = [emitted EXCEPT !["manipulation"] = Append(@, ManipChunkShape)]
    /\ UNCHANGED <<inputVars, tsFormat, clientStreams, ctxVars, rpc,
                   transcript_text, generated, nInterim, tsEvent, pending,
                   aggregate, completed, out, tpc, tpass, tidx, tlast, depth,
                   llm_failed,
                   transcription_failed, run_result, clientVars, auxVars>>

\* the done chunk is forwarded like the others; the stream is exhausted and
\* the service awaits self.analyze
ManipDone ==
    /\ rpc \in TaskPhases
    /\ tpc["manipulation"] = "m_stream"
    /\ event_queue' = event_queue \o PartialEvents("manipulation", <<ManipChunkShape>>)
    /\ emitted' = [emitted EXCEPT !["manipulation"] = Append(@, ManipChunkShape)]
    /\ tpc' = [tpc EXCEPT !["manipulation"] = "m_recursing"]
    /\ depth' = 1
    /\ UNCHANGED <<inputVars, tsFormat, clientStreams, ctxVars, rpc,
                   transcript_text, generated, nInterim, tsEvent, pending,
                   aggregate, completed, out, tpass, tidx, tlast, njson,
                   llm_failed,
                   transcription_failed, run_result, clientVars, auxVars>>

\* the injected client raises inside json_stream: `except Exception: pass`,
\* then the fallback `await self.analyze`
ManipRaise ==
    /\ rpc \in TaskPhases
    /\ tpc["manipulation"] = "m_stream"
    /\ tpc' = [tpc EXCEPT !["manipulation"] = "m_recursing"]
    /\ depth' = 1
    /\ UNCHANGED <<inputVars, tsFormat, clientStreams, ctxVars, runVars, clientVars, auxVars,
                   tpass, tidx, tlast, njson, emitted,
                   llm_failed>>

\* analyze starts one more nested stream_analyze, which opens another
\* json_stream; depth counts the nested invocations up to MaxRecursion and
\* stays there for every deeper level
ManipRecurse ==
    /\ rpc \in TaskPhases
    /\ tpc["manipulation"] = "m_recursing"
    /\ tpc' = [tpc EXCEPT !["manipulation"] = "m_nested"]
    /\ depth' = Min(depth + 1, MaxRecursion)
    /\ UNCHANGED <<inputVars, tsFormat, clientStreams, ctxVars, runVars, clientVars, auxVars,
                   tpass, tidx, tlast, njson, emitted,
                   llm_failed>>

\* the nested json_stream is exhausted (or raised) and the nested
\* stream_analyze awaits self.analyze in its turn; its chunks go to the
\* analyze that iterates it, not to the queue, and no level returns
ManipNestedAwait ==
    /\ rpc \in TaskPhases
    /\ tpc["manipulation"] = "m_nested"
    /\ tpc' = [tpc EXCEPT !["manipulation"] = "m_recursing"]
    /\ UNCHANGED <<inputVars, tsFormat, clientStreams, ctxVars, runVars, clientVars, auxVars,
                   tpass, tidx, tlast, njson, emitted, depth,
                   llm_failed>>

\* ------------------------------------------------ stream_run: consume loop
\* only the events of type "final" end a service
IsTerminalEvent_FinalOnly(ev) == ev.type = "final"

\* `ttype in ("final", "error")`: the event that ends a service's task
IsTerminalEvent(ev) == ev.type \in {"final", "error"}

\* a queue that hands out its newest event first
ConsumeEvent_NewestFirst ==
    /\ rpc = "consume"
    /\ event_queue # <<>>
    /\ LET ev == event_queue[Len(event_queue)]
           svc == ev.service
       IN  /\ event_queue' = SubSeq(event_queue, 1, Len(event_queue) - 1)
           /\ IF ev.type = "partial"
              THEN /\ out' = Append(out, UpdateEvent(svc, ev.payload))
                   /\ UNCHANGED <<aggregate, pending, completed>>
              ELSE IF IsTerminalEvent(ev)
              THEN /\ aggregate' =
                        [aggregate EXCEPT
                           !.services = (svc :> ev.payload) @@ @,
                           !.errors = IF ev.type = "error" THEN @ \cup {svc} ELSE @]
                   /\ pending' = IF tpc[svc] = "done" THEN pending \ {svc} ELSE pending
                   /\ completed' = completed + 1
                   /\ out' = out \o <<UpdateEvent(svc, ev.payload),
                                      ProgressEvent(svc, completed + 1, Cardinality(Tasks))>>
              ELSE UNCHANGED <<aggregate, pending, completed, out>>
    /\ UNCHANGED <<inputVars, tsFormat, clientStreams, ctxVars, rpc,
                   transcript_text, generated, nInterim, tsEvent, taskVars,
                   transcription_failed, run_result, clientVars, auxVars>>

\* one event taken from the queue
ConsumeEvent ==
    /\ rpc = "consume"
    /\ event_queue # <<>>
    /\ LET ev == Head(event_queue)
           svc == ev.service
       IN  /\ event_queue' = Tail(event_queue)
           /\ IF ev.type = "partial"
              THEN /\ out' = Append(out, UpdateEvent(svc, ev.payload))
                   /\ UNCHANGED <<aggregate, pending, completed>>
              ELSE IF IsTerminalEvent(ev)
              THEN /\ aggregate' =
                        [aggregate EXCEPT
                           !.services = (svc :> ev.payload) @@ @,
                           !.errors = IF ev.type = "error" THEN @ \cup {svc} ELSE @]
                   /\ pending' = IF tpc[svc] = "done" THEN pending \ {svc} ELSE pending
                   /\ completed' = completed + 1
                   /\ out' = out \o <<UpdateEvent(svc, ev.payload),
                                      ProgressEvent(svc, completed + 1, Cardinality(Tasks))>>
              ELSE UNCHANGED <<aggregate, pending, completed, out>>
    /\ UNCHANGED <<inputVars, tsFormat, clientStreams, ctxVars, rpc,
                   transcript_text, generated, nInterim, tsEvent, taskVars,
                   transcription_failed, run_result, clientVars, auxVars>>

\* a timeout that leaves the loop whatever the tasks are doing
ConsumeTimeout_LeavesLoop ==
    /\ rpc = "consume"
    /\ event_queue = <<>>
    /\ pending # {}
    /\ rpc' = "final"
    /\ UNCHANGED <<inputVars, tsFormat, clientStreams, ctxVars, transcript_text,
                   generated, nInterim, tsEvent, event_queue, pending, aggregate,
                   completed, out, taskVars,
                   transcription_failed, run_result, clientVars, auxVars>>

\* event_queue.get() times out
ConsumeTimeout ==
    /\ rpc = "consume"
    /\ event_queue = <<>>
    /\ pending # {}
    /\ LET new_pending == {t \in pending : tpc[t] # "done"}
       IN  IF new_pending = {}
           THEN /\ rpc' = "final"
                /\ UNCHANGED pending
           ELSE /\ pending' = new_pending
                /\ UNCHANGED rpc
    /\ UNCHANGED <<inputVars, tsFormat, clientStreams, ctxVars, transcript_text,
                   generated, nInterim, tsEvent, event_queue, aggregate,
                   completed, out, taskVars,
                   transcription_failed, run_result, clientVars, auxVars>>

\* the loop condition `pending or not event_queue.empty()` is false
ExitLoop ==
    /\ rpc = "consume"
    /\ event_queue = <<>>
    /\ pending = {}
    /\ rpc' = "final"
    /\ UNCHANGED <<inputVars, tsFormat, clientStreams, ctxVars, transcript_text,
                   generated, nInterim, tsEvent, event_queue, pending, aggregate,
                   completed, out, taskVars,
                   transcription_failed, run_result, clientVars, auxVars>>

\* stream_run is suspended at one of its yields: the consumer holds the last
\* event of `out` and has not asked for the next one
AtYield ==
    /\ Len(out) > 0
    /\ rpc \in {"transcribing", "first_done", "start_tasks", "consume"}
    /\ rpc = "consume" => out[Len(out)].event # "analysis.done"

\* the consumer closes the stream: GeneratorExit is raised at the yield and
\* ends stream_run, which has no try/finally and cancels nothing; the tasks
\* it created stay scheduled on the event loop
ConsumerClose ==
    /\ AtYield
    /\ rpc' = "closed"
    /\ UNCHANGED <<inputVars, tsFormat, clientStreams, ctxVars, transcript_text,
                   generated, nInterim, tsEvent, transcription_failed, run_result, clientVars, auxVars,
                   event_queue, pending, aggregate, completed, out, taskVars>>

\* the second `analysis.done` of stream_run, with the aggregate
EmitFinalDone ==
    /\ rpc = "final"
    /\ out' = Append(out, DoneEvent(transcript_text, aggregate))
    /\ rpc' = "done"
    /\ UNCHANGED <<inputVars, tsFormat, clientStreams, ctxVars, transcript_text,
                   generated, nInterim, tsEvent, event_queue, pending, aggregate,
                   completed, taskVars,
                   transcription_failed, run_result, clientVars, auxVars>>

\* ------------------------------------------------------ V2AnalysisRunner.run
\* run reads `payload.get("partial", False)` on the payload of every
\* analysis.update; the payload of an error event is the string str(ex)
RunReadsString ==
    \E i \in 1..Len(out) :
        out[i].event = "analysis.update" /\ out[i].payload.kind = "str"

\* how run ends once stream_run has ended: an exception of stream_run
\* propagates, `.get` on a string raises AttributeError, and otherwise the
\* statement after the loop reads start_time, a name that is never bound
RunOutcome ==
    IF rpc = "raised" THEN "raised"
    ELSE IF RunReadsString THEN "AttributeError"
    ELSE "NameError"

\* run after its `async for` over stream_run
RunFinish ==
    /\ rpc \in {"done", "raised"}
    /\ run_result = "running"
    /\ run_result' = RunOutcome
    /\ UNCHANGED <<inputVars, tsFormat, clientStreams, ctxVars, rpc,
                   transcript_text, generated, nInterim, tsEvent,
                   transcription_failed, event_queue, pending, aggregate,
                   completed, out, taskVars, clientVars, auxVars>>

\* ============================================================ GeminiClientV2
\* One call of the client followed on its own: _generate_with_retries,
\* query_json, query_json_schema or json_stream.
ClientOps == {"generate", "query_json", "query_json_schema", "json_stream",
              "transcribe_stream", "stream_analyze"}
\* the calls that go through the live surface when the SDK has one
LiveOps == {"json_stream", "transcribe_stream", "stream_analyze"}
\* the calls that read the audio
AudioOps == {"transcribe_stream", "stream_analyze"}

\* 2 ** n
RECURSIVE Pow2(_)
Pow2(n) == IF n <= 0 THEN 1 ELSE 2 * Pow2(n - 1)

\* what a call can return: a dict with n keys, a JSON array, a JSON scalar
Dict(n) == [kind |-> "dict", n |-> n]
NoReturn == [kind |-> "none", n |-> 0]

\* backend.services.json_utils.create_fallback_response(str(e)): a map that
\* contains an error
CreateFallbackResponse == {[kind |-> "fallback", n |-> k] : k \in 1..2}

\* the values query_json returns for a response of the SDK: the dict itself,
\* {} for an empty text, the parsed JSON (an object or an array), or
\* {"text": text}
QueryJsonReturns ==
    {Dict(n) : n \in 0..MaxKeys} \cup {[kind |-> "list", n |-> 0]}

\* the values query_json_schema returns: json.loads(text), which may be an
\* object, an array or a scalar, or {"raw_text": text}
QueryJsonSchemaReturns ==
    {Dict(n) : n \in 0..MaxKeys}
        \cup {[kind |-> "list", n |-> 0], [kind |-> "scalar", n |-> 0]}

\* a chunk of json_stream: data is the set of the keys it holds, the keys
\* of the result being numbered 1..n in their order
JsonChunk(kind, data, idx, done) ==
    [kind |-> kind, data |-> data, idx |-> idx, done |-> done]

ClientInit ==
    /\ RunnerInit
    /\ factories = {}
    /\ transcript = NoneT
    /\ audio = "none"
    /\ ~ctxMethods
    /\ cop \in ClientOps
    /\ max_retries \in -1..MaxRetries
    /\ hasGenerativeModel \in BOOLEAN
    /\ live \in IF cop \in LiveOps THEN BOOLEAN ELSE {FALSE}
    /\ caudio \in IF cop \in AudioOps THEN BOOLEAN ELSE {FALSE}
    /\ hasTranscribeStream \in IF cop = "stream_analyze" THEN BOOLEAN ELSE {TRUE}
    /\ ts_ctx \in IF cop = "stream_analyze" THEN {"plain", "methods"} ELSE {"none"}
    /\ LifeIdle
    /\ ScoreIdle
    /\ ts_read = 0
    /\ ts_trace = <<>>
    /\ cpc = "call"
    /\ surface = "none"
    /\ attempt = 0
    /\ attempts = 0
    /\ sleeps = <<>>
    /\ cret = NoReturn
    /\ cout = <<>>
    /\ listings = 0

\* the calls of choose_model, each of which calls list_available_models,
\* made before the generation starts: none by _generate_with_retries, one
\* by query_json and query_json_schema, one by json_stream itself and one
\* more by the batch query of its simulated path
ModelSelections(op, viaLive) ==
    IF op = "generate" THEN 0
    ELSE IF op = "json_stream" /\ ~viaLive THEN 2
    ELSE 1

\* the call begins: json_stream first tries the live surface when the SDK
\* has one, everything else goes to _generate_with_retries
ClientCall ==
    /\ cpc = "call"
    /\ cop \notin AudioOps
    /\ IF cop = "json_stream" /\ live
       THEN /\ cpc' = "live"
            /\ UNCHANGED surface
       ELSE /\ cpc' = "gen"
            /\ surface' = IF hasGenerativeModel THEN "GenerativeModel" ELSE "client"
    /\ listings' = listings + ModelSelections(cop, live)
    /\ UNCHANGED <<runnerVars, auxVars, tsVars, cop, max_retries, hasGenerativeModel, live,
                   attempt, attempts, sleeps, cret, cout>>

\* the attempt counter restarts for the second surface
SurfaceFirstAttempt_Restart(a) == 0

\* the attempt counter the loop of the client surface starts from: the one
\* the GenerativeModel loop left
SurfaceFirstAttempt(a) == a

\* _generate_with_retries: one pass of `while attempt <= self.max_retries`,
\* on either surface; a failed attempt that may be retried sleeps
\* backoff_base * 2 ** (attempt - 1) + random.uniform(0, 0.1)
GenAttempt ==
    /\ cpc = "gen"
    /\ attempt <= max_retries
    /\ attempt' = attempt + 1
    /\ attempts' = attempts + 1
    /\ \E ok \in BOOLEAN, jitter \in {0, 1} :
          IF ok
          THEN /\ cpc' = "gen_returned"
               /\ UNCHANGED sleeps
          ELSE /\ UNCHANGED cpc
               /\ sleeps' = IF attempt' <= max_retries
                              THEN Append(sleeps, [mult |-> Pow2(attempt' - 1),
                                                   jitter |-> jitter])
                              ELSE sleeps
    /\ UNCHANGED <<runnerVars, auxVars, listings, tsVars, cop, max_retries, hasGenerativeModel, live,
                   surface, cret, cout>>

\* the loop of a surface is left without a response: the client surface is
\* tried next, and after it `raise last_exc`
GenLoopExit ==
    /\ cpc = "gen"
    /\ attempt > max_retries
    /\ IF surface = "GenerativeModel"
       THEN /\ surface' = "client"
            /\ attempt' = SurfaceFirstAttempt(attempt)
            /\ UNCHANGED cpc
       ELSE /\ cpc' = "gen_raised"
            /\ UNCHANGED <<surface, attempt>>
    /\ UNCHANGED <<runnerVars, auxVars, listings, tsVars, cop, max_retries, hasGenerativeModel, live,
                   attempts, sleeps, cret, cout>>

\* the exception of _generate_with_retries reaches the caller
QueryRaises_Propagate == {[kind |-> "raised", n |-> 0]}

\* query_json, query_json_schema: `except Exception as e: return
\* create_fallback_response(str(e))`
QueryRaises == CreateFallbackResponse

\* what the call gives back once _generate_with_retries has ended
ClientReturn ==
    /\ cpc \in {"gen_returned", "gen_raised"}
    /\ cret' \in
          IF cop = "generate"
          THEN {[kind |-> IF cpc = "gen_raised" THEN "raised" ELSE "response", n |-> 0]}
          ELSE IF cpc = "gen_raised" THEN QueryRaises
          ELSE IF cop = "query_json_schema" THEN QueryJsonSchemaReturns
          ELSE QueryJsonReturns
    /\ cpc' = IF cop = "json_stream" THEN "simulate" ELSE "end"
    /\ UNCHANGED <<runnerVars, auxVars, listings, tsVars, cop, max_retries, hasGenerativeModel, live,
                   surface, attempt, attempts, sleeps, cout>>

\* json_stream, simulated: the chunks made from the result of the batch
\* query. num_chunks = min(len(keys), 5), chunk_size = max(1, len(keys) //
\* num_chunks); chunk i holds keys[i*chunk_size : (i+1)*chunk_size], the
\* last one up to the end; then the final chunk with the whole result.
\* For an empty dict the division raises ZeroDivisionError and the except
\* branch yields the error chunk. A result that is not a dict is one chunk.
MaxSimulated == 5
SimulatedChunks(result) ==
    IF result.kind \notin {"dict", "fallback"}
    THEN <<JsonChunk(result.kind, {}, 0, TRUE)>>
    ELSE LET n == result.n
             num_chunks == Min(n, MaxSimulated)
         IN  IF num_chunks = 0
             THEN <<JsonChunk("error", {}, 0, TRUE)>>
             ELSE LET chunk_size == Max(1, n \div num_chunks)
                      start_idx(i) == i * chunk_size
                      end_idx(i) == IF i < num_chunks - 1
                                    THEN start_idx(i) + chunk_size ELSE n
                  IN  [i \in 1..num_chunks |->
                          JsonChunk("map", (start_idx(i - 1) + 1)..end_idx(i - 1),
                                    i - 1, FALSE)]
                      \o <<JsonChunk("map", 1..n, num_chunks, TRUE)>>

SimulateEmit ==
    /\ cpc = "simulate"
    /\ cout' = cout \o SimulatedChunks(cret)
    /\ cpc' = "end"
    /\ UNCHANGED <<runnerVars, auxVars, listings, tsVars, cop, max_retries, hasGenerativeModel, live,
                   surface, attempt, attempts, sleeps, cret>>

\* json_stream, live: a message part is forwarded as a chunk
LiveChunk ==
    /\ cpc = "live"
    /\ Len(cout) < MaxLiveChunks
    /\ cout' = Append(cout, JsonChunk("live", {}, Len(cout), FALSE))
    /\ UNCHANGED <<runnerVars, auxVars, listings, tsVars, cop, max_retries, hasGenerativeModel, live,
                   cpc, surface, attempt, attempts, sleeps, cret>>

\* the live session ends: the done marker, then `return` inside `async with`
LiveDone ==
    /\ cpc = "live"
    /\ cout' = Append(cout, JsonChunk("live", {}, Len(cout), TRUE))
    /\ cpc' = "live_close"
    /\ UNCHANGED <<runnerVars, auxVars, listings, tsVars, cop, max_retries, hasGenerativeModel, live,
                   surface, attempt, attempts, sleeps, cret>>

\* connecting, sending or receiving raises: `except Exception`, then the
\* simulated path
LiveRaise ==
    /\ cpc = "live"
    /\ cpc' = "gen"
    /\ surface' = IF hasGenerativeModel THEN "GenerativeModel" ELSE "client"
    /\ listings' = listings + 1
    /\ UNCHANGED <<runnerVars, auxVars, tsVars, cop, max_retries, hasGenerativeModel, live,
                   attempt, attempts, sleeps, cret, cout>>

\* leaving `async with`: the session closes, or its __aexit__ raises into
\* the same `except Exception`
LiveClose ==
    /\ cpc = "live_close"
    /\ \E ok \in BOOLEAN :
          IF ok
          THEN /\ cpc' = "end"
               /\ UNCHANGED surface
          ELSE /\ cpc' = "gen"
               /\ surface' = IF hasGenerativeModel THEN "GenerativeModel" ELSE "client"
    /\ listings' = IF cpc' = "gen" THEN listings + 1 ELSE listings
    /\ UNCHANGED <<runnerVars, auxVars, tsVars, cop, max_retries, hasGenerativeModel, live,
                   attempt, attempts, sleeps, cret, cout>>

\* ------------------------------------- transcribe_stream, stream_analyze
\* an event of transcribe_stream: {'interim': True, 'partial_transcript': t}
\* or {'interim': False, 'transcript': t}
StreamEvent(interim, t) == [interim |-> interim, text |-> t, done |-> ~interim]

\* what transcribe returns: the text of the audio, "" or, when the request
\* failed, the string "Transcription failed: ..."
TranscribeReturns == {0, LongWords}

\* the streaming path of the client is entered: transcribe_stream called
\* directly, or by stream_analyze when the client has it and there is audio
StreamingPath ==
    \/ cop = "transcribe_stream"
    \/ cop = "stream_analyze" /\ hasTranscribeStream /\ caudio

\* transcribe_stream begins: without audio the one terminal event, else the
\* live surface when the SDK has one, else the fallback
TranscribeStreamCall ==
    /\ cpc = "call"
    /\ StreamingPath
    /\ IF ~caudio
       THEN /\ cout' = <<StreamEvent(FALSE, 0)>>
            /\ cpc' = "t_end"
       ELSE /\ cpc' = IF live THEN "t_live" ELSE "t_fallback"
            /\ UNCHANGED cout
    /\ listings' = IF caudio /\ live THEN listings + 1 ELSE listings
    /\ UNCHANGED <<runnerVars, auxVars, tsVars, cop, max_retries, hasGenerativeModel,
                   live, surface, attempt, attempts, sleeps, cret>>

\* live: a message part becomes an interim event
TranscribeLiveInterim ==
    /\ cpc = "t_live"
    /\ Len(cout) < MaxLiveChunks
    /\ \E t \in TranscribeReturns : cout' = Append(cout, StreamEvent(TRUE, t))
    /\ UNCHANGED <<runnerVars, auxVars, listings, tsVars, cop, max_retries, hasGenerativeModel,
                   live, cpc, surface, attempt, attempts, sleeps, cret>>

\* live: the session's messages are over; the final transcript comes from
\* transcribe and is yielded inside `async with`, followed by `return`
TranscribeLiveFinal ==
    /\ cpc = "t_live"
    /\ \E t \in TranscribeReturns : cout' = Append(cout, StreamEvent(FALSE, t))
    /\ cpc' = "t_live_close"
    /\ listings' = listings + 1
    /\ UNCHANGED <<runnerVars, auxVars, tsVars, cop, max_retries, hasGenerativeModel,
                   live, surface, attempt, attempts, sleeps, cret>>

\* live: connecting, sending or receiving raises part-way
TranscribeLiveRaise ==
    /\ cpc = "t_live"
    /\ cpc' = "t_fallback"
    /\ UNCHANGED <<runnerVars, auxVars, listings, tsVars, cop, max_retries, hasGenerativeModel,
                   live, surface, attempt, attempts, sleeps, cret, cout>>

\* live: the `return` leaves `async with`; the session closes, or its
\* __aexit__ raises into `except Exception` and the function goes on to
\* the fallback
TranscribeLiveClose ==
    /\ cpc = "t_live_close"
    /\ cpc' \in {"t_end", "t_fallback"}
    /\ UNCHANGED <<runnerVars, auxVars, listings, tsVars, cop, max_retries, hasGenerativeModel,
                   live, surface, attempt, attempts, sleeps, cret, cout>>

\* fallback: an empty interim, then the transcript of transcribe
TranscribeStreamFallback ==
    /\ cpc = "t_fallback"
    /\ \E t \in TranscribeReturns :
          cout' = cout \o <<StreamEvent(TRUE, 0), StreamEvent(FALSE, t)>>
    /\ cpc' = "t_end"
    /\ listings' = listings + 1
    /\ UNCHANGED <<runnerVars, auxVars, tsVars, cop, max_retries, hasGenerativeModel,
                   live, surface, attempt, attempts, sleeps, cret>>

\* whether ctx has the method finalize_transcript: the AnalysisContext of
\* analysis_context.py has it, the dataclass of runner.py has not
HasFinalize(c) == c = "methods"

\* TranscriptionService.stream_analyze, streaming path: the next event of
\* transcribe_stream. An interim one becomes a coarse chunk. The first
\* terminal one sets ctx.transcript_final, is yielded as the final chunk,
\* then ctx.finalize_transcript(final_text) sets ctx.transcript_final
\* again, and the method returns without reading further events.
ServiceReadsEvent ==
    /\ cop = "stream_analyze"
    /\ cpc \in {"t_live", "t_live_close", "t_fallback", "t_end"}
    /\ ts_read < Len(cout)
    /\ ts_read' = ts_read + 1
    /\ IF cout[ts_read + 1].interim
       THEN /\ ts_trace' = Append(ts_trace, "coarse")
            /\ UNCHANGED cpc
       ELSE /\ ts_trace' = ts_trace \o <<"write", "final">>
                             \o (IF HasFinalize(ts_ctx) THEN <<"write">> ELSE <<>>)
            /\ cpc' = "end"
    /\ UNCHANGED <<runnerVars, auxVars, listings, genVars_but_cpc, caudio, hasTranscribeStream, ts_ctx>>

\* TranscriptionService.stream_analyze, non-streaming path: the empty
\* coarse chunk, analyze (which returns the transcript it was given or the
\* one transcribe makes of the audio), `if ctx and final.get("transcript")`
\* the write, and the final chunk
ServiceFallback ==
    /\ cop = "stream_analyze"
    /\ cpc = "call"
    /\ ~StreamingPath
    /\ \E t \in TranscribeReturns :
          ts_trace' = <<"coarse">> \o (IF Truthy(t) THEN <<"write">> ELSE <<>>)
                        \o <<"final">>
    /\ cpc' = "end"
    /\ UNCHANGED <<runnerVars, auxVars, listings, genVars_but_cpc, caudio, hasTranscribeStream,
                   ts_ctx, ts_read>>

\* transcribe_stream called directly has yielded everything
TranscribeStreamEnd ==
    /\ cop = "transcribe_stream"
    /\ cpc = "t_end"
    /\ cpc' = "end"
    /\ UNCHANGED <<runnerVars, auxVars, listings, genVars_but_cpc, tsVars>>

ClientNext ==
    \/ ClientCall
    \/ GenAttempt
    \/ GenLoopExit
    \/ ClientReturn
    \/ SimulateEmit
    \/ LiveChunk
    \/ LiveDone
    \/ LiveRaise
    \/ LiveClose
    \/ TranscribeStreamCall
    \/ TranscribeLiveInterim
    \/ TranscribeLiveFinal
    \/ TranscribeLiveRaise
    \/ TranscribeLiveClose
    \/ TranscribeStreamFallback
    \/ TranscribeStreamEnd
    \/ ServiceReadsEvent
    \/ ServiceFallback

ClientSpec == ClientInit /\ [][ClientNext]_vars

\* ======================================= V2AnalysisRunner over its requests
MaxRequests == 2

\* a service instance is known by the call that built it (0 is __init__, n is
\* the _build_services call of request n) and by its service
Instance(builder, s) == [built_by |-> builder, service |-> s]
BuildInstances(builder) == {Instance(builder, s) : s \in factories}

LifecycleInit ==
    /\ RunnerInit
    /\ transcript = NoneT
    /\ audio = "none"
    /\ ~ctxMethods
    /\ ClientIdle
    /\ lpc = "new"
    /\ request = 0
    /\ req_audio = FALSE
    /\ instances = {}
    /\ used = {}
    /\ ScoreIdle

Use(s, builder) == [request |-> request, instance |-> Instance(builder, s)]

\* V2AnalysisRunner.__init__: self.services, self.transcription_service and
\* self.audio_analysis_service are built once from the factories
RunnerConstruct ==
    /\ lpc = "new"
    /\ instances' = BuildInstances(0)
    /\ lpc' = "ready"
    /\ UNCHANGED <<runnerVars, clientVars, scoreVars, request, req_audio, used>>

\* stream_run is called for the next request
RequestBegin ==
    /\ lpc = "ready"
    /\ request < MaxRequests
    /\ request' = request + 1
    /\ req_audio' \in BOOLEAN
    /\ lpc' = "transcribe"
    /\ UNCHANGED <<runnerVars, clientVars, scoreVars, instances, used>>

\* stream_run: the audio is transcribed by self.transcription_service
RequestTranscribe ==
    /\ lpc = "transcribe"
    /\ used' = IF Instance(0, "transcription") \in instances /\ req_audio
               THEN used \cup {Use("transcription", 0)}
               ELSE used
    /\ lpc' = "build"
    /\ UNCHANGED <<runnerVars, clientVars, scoreVars, request, req_audio, instances>>

\* stream_run: services = self._build_services(transcript_text, audio, meta)
RequestBuildServices ==
    /\ lpc = "build"
    /\ instances' = instances \cup BuildInstances(request)
    /\ lpc' = "tasks"
    /\ UNCHANGED <<runnerVars, clientVars, scoreVars, request, req_audio, used>>

\* stream_run: a task is created for the audio analysis instance of the
\* services map and for every service of it but transcription
RequestStartTasks ==
    /\ lpc = "tasks"
    /\ used' = used \cup {Use(s, request) : s \in factories \ {"transcription"}}
    /\ lpc' = "ready"
    /\ UNCHANGED <<runnerVars, clientVars, scoreVars, request, req_audio, instances>>

LifecycleNext ==
    \/ RunnerConstruct
    \/ RequestBegin
    \/ RequestTranscribe
    \/ RequestBuildServices
    \/ RequestStartTasks

LifecycleSpec == LifecycleInit /\ [][LifecycleNext]_vars

\* ============================ CredibilityScoringService, the scoring function
\* Numbers are fixed-point: z-scores in thousandths, weights in hundredths,
\* contributions in units of 1e-5, scores and margins in units of 1e-4, and
\* the rounded fields of the result in tenths.
MaxMetrics == 3
MaxValue == 4

MetricNames == {"pitch_jitter", "hnr_mean", "pitch_std", "speech_rate"}

METRIC_WEIGHTS(n) ==
    CASE n = "pitch_jitter" -> 85
      [] n = "hnr_mean" -> 65
      [] n = "pitch_std" -> 60
      [] n = "speech_rate" -> 60
      [] OTHER -> 50

METRIC_DIRECTIONS(n) ==
    CASE n = "pitch_jitter" -> 1
      [] n = "hnr_mean" -> -1
      [] n = "pitch_std" -> 0
      [] n = "speech_rate" -> -1
      [] OTHER -> 1

Abs(x) == IF x < 0 THEN -x ELSE x
\* the quotient of a float division, cut to the unit of the result
TruncDiv(a, b) == IF a >= 0 THEN a \div b ELSE -((-a) \div b)

RECURSIVE ISqrtIn(_, _, _)
ISqrtIn(x, lo, hi) ==
    IF lo >= hi THEN lo
    ELSE LET mid == (lo + hi + 1) \div 2
         IN  IF mid * mid <= x THEN ISqrtIn(x, mid, hi) ELSE ISqrtIn(x, lo, mid - 1)
\* the square root, cut to an integer
ISqrt(x) == ISqrtIn(x, 0, 46340)

RECURSIVE SumSeq(_)
SumSeq(seq) == IF seq = <<>> THEN 0 ELSE Head(seq) + SumSeq(Tail(seq))
\* sum(F(c) for c in seq)
SumOf(seq, F(_)) == SumSeq([i \in 1..Len(seq) |-> F(seq[i])])

\* the metric dicts the function is called with: distinct names in the order
\* of the dict, each with a value
MetricDicts ==
    UNION {{m \in [1..n -> [metric_name : MetricNames, value : 0..MaxValue]] :
               \A i, j \in 1..n : i # j => m[i].metric_name # m[j].metric_name} :
           n \in 0..MaxMetrics}

\* the baseline entry of a metric: none, or a mean with a std and a MAD
\* (a MAD of 0 stands for None as well: both leave the z-score as it is)
MetricBaselines ==
    {NoBaselineEntry} \cup
    {[present |-> TRUE, mean |-> 1, std |-> sd, mad |-> md] :
        sd \in {0, 1, 2}, md \in {0, 1}}

\* the baseline argument: None, or an object that has the same entry for every
\* metric or none for any (the BaselineProfile of backend.models has no
\* attribute named after a metric and no calibration_quality)
Baselines ==
    {NoBaseline} \cup
    {[given |-> TRUE, entry |-> e, has_quality |-> q] :
        e \in MetricBaselines, q \in BOOLEAN}

ScoreInit ==
    /\ RunnerInit
    /\ factories = {}
    /\ transcript = NoneT
    /\ audio = "none"
    /\ ~ctxMethods
    /\ ClientIdle
    /\ LifeIdle
    /\ metrics \in MetricDicts
    /\ baseline \in Baselines
    /\ spc = "called"
    /\ scored = NoScore

\* _calculate_z_score
CalculateZScore(value, b) ==
    IF ~b.present \/ b.std = 0 THEN [none |-> TRUE, z |-> 0]
    ELSE LET z == TruncDiv(1000 * (value - b.mean), b.std)
             mad_z == TruncDiv(6745 * (value - b.mean), 10 * b.mad)
         IN  IF b.mad > 0 /\ Abs(mad_z) < Abs(z)
             THEN [none |-> FALSE, z |-> mad_z]
             ELSE [none |-> FALSE, z |-> z]

\* getattr(baseline, metric_name) when baseline has that attribute
MetricBaselineOf(bl, n) == IF bl.given THEN bl.entry ELSE NoBaselineEntry

\* the MetricContribution of one metric, or none without a z-score
ContributionOf(m, bl) ==
    LET zs == CalculateZScore(m.value, MetricBaselineOf(bl, m.metric_name))
        weight == METRIC_WEIGHTS(m.metric_name)
        direction == METRIC_DIRECTIONS(m.metric_name)
    IN  [none |-> zs.none, metric_name |-> m.metric_name, z_score |-> zs.z,
         direction |-> direction, weight |-> weight,
         contribution |-> direction * zs.z * weight]

Contributions(ms, bl) ==
    SelectSeq([i \in 1..Len(ms) |-> ContributionOf(ms[i], bl)], LAMBDA c : ~c.none)

\* max(0, min(100, raw_score))
ClampScore_None(raw) == raw
ClampScore(raw) == Max(0, Min(1000000, raw))

\* round(x, 1): to the nearest tenth, a tie to the even one
RoundTenths(x) ==
    LET q == x \div 1000
        r == x % 1000
    IN  IF r < 500 THEN q
        ELSE IF r > 500 THEN q + 1
        ELSE IF q % 2 = 0 THEN q ELSE q + 1

\* f"{z_score:.2f}": to the nearest hundredth
RoundHundredths(z) ==
    LET a == Abs(z)
        q == a \div 10
        r == a % 10
        up == IF r < 5 THEN q ELSE IF r > 5 THEN q + 1
              ELSE IF q % 2 = 0 THEN q ELSE q + 1
    IN  IF z < 0 THEN -up ELSE up

\* the string f"{metric_name}: {sign}{z_score:.2f}s (suspicious)"
FormatIndicator(c) == [metric_name |-> c.metric_name, sigma |-> RoundHundredths(c.z_score)]

\* stats.sem(z_scores), in thousandths
Sem(cs) ==
    LET n == Len(cs)
        sz == SumOf(cs, LAMBDA c : c.z_score)
        sz2 == SumOf(cs, LAMBDA c : c.z_score * c.z_score)
    IN  ISqrt((n * sz2 - sz * sz) \div (n * n * (n - 1)))

\* the margin of the confidence interval: sem * 1.96 * 25, or 30
CiMargin(cs) == IF Len(cs) >= 3 THEN Sem(cs) * 490 ELSE 300000

\* the primary_indicators list before it is cut to five entries
FlaggedIndicators(cs) ==
    LET flagged == SelectSeq(cs, LAMBDA c : Abs(c.z_score) > 1500
                                           /\ c.direction * c.z_score > 0)
    IN  [i \in 1..Len(flagged) |-> FormatIndicator(flagged[i])]

\* CredibilityScore(...) of backend.models: the float field confidence_level
\* rejects the strings "high", "medium" and "low"; the keyword arguments that
\* name no field of the model are dropped
CredibilityScoreModel(confidence_level) ==
    IF confidence_level \in {"high", "medium", "low"}
    THEN "ValidationError" ELSE "CredibilityScore"

\* _calculate_credibility_score: the values it computes and how it ends
CredibilityScoreOf(ms, bl) ==
    LET cs == Contributions(ms, bl)
        weighted_sum == SumOf(cs, LAMBDA c : c.contribution)
        total_weight == SumOf(cs, LAMBDA c : c.weight)
        credibility_score ==
            IF total_weight > 0
            THEN ClampScore((500000 * total_weight - 250 * weighted_sum) \div total_weight)
            ELSE 500000
        ci_margin == CiMargin(cs)
        ci_low == Max(0, credibility_score - ci_margin)
        ci_high == Min(1000000, credibility_score + ci_margin)
        ci_width == ci_high - ci_low
        category ==
            IF ci_width > 500000 THEN "inconclusive"
            ELSE IF credibility_score >= 700000 THEN "high_credibility"
            ELSE IF credibility_score >= 400000 THEN "moderate"
            ELSE IF credibility_score >= 200000 THEN "low_credibility"
            ELSE "very_low_credibility"
        confidence ==
            IF ci_width < 200000 THEN "high"
            ELSE IF ci_width < 400000 THEN "medium" ELSE "low"
        flagged == FlaggedIndicators(cs)
    IN  [outcome |-> IF bl.given /\ ~bl.has_quality THEN "AttributeError"
                     ELSE CredibilityScoreModel(confidence),
         credibility_score |-> RoundTenths(credibility_score),
         confidence_interval_low |-> RoundTenths(ci_low),
         confidence_interval_high |-> RoundTenths(ci_high),
         credibility_category |-> category,
         confidence_level |-> confidence,
         primary_indicators |-> SubSeq(flagged, 1, Min(5, Len(flagged))),
         contributions |-> cs,
         quality_warnings |->
            (IF total_weight > 0 THEN {} ELSE {"insufficient_metrics"})
            \cup (IF Len(cs) >= 3 THEN {} ELSE {"wide_interval"})]

CalculateCredibilityScore ==
    /\ spc = "called"
    /\ scored' = CredibilityScoreOf(metrics, baseline)
    /\ spc' = "ended"
    /\ UNCHANGED <<runnerVars, clientVars, lifeVars, metrics, baseline>>

ScoreNext == CalculateCredibilityScore

ScoreSpec == ScoreInit /\ [][ScoreNext]_vars

\* ===================================================== the whole request
Next ==
    \/ RunnerStart
    \/ \E p \in StreamTexts : TranscribeInterim(p)
    \/ \E t \in StreamTexts : TranscribeFinal(t)
    \/ TranscribeFallback
    \/ RunnerHandleTranscriptEvent
    \/ EmitTranscriptDone
    \/ StartTasks
    \/ AudioTask
    \/ EnhancedMetricsTask
    \/ CredibilityTask
    \/ QuantStart
    \/ QuantLLMReturn
    \/ QuantAnalyzeReturn
    \/ PsychStart
    \/ PsychLLMReturn
    \/ ArgStart
    \/ ArgChunk
    \/ ArgCoarseDoneFinalPhase
    \/ ArgCoarseDone
    \/ ArgFinalDone
    \/ ArgRaise
    \/ ManipStart
    \/ ManipChunk
    \/ ManipDone
    \/ ManipRaise
    \/ ManipRecurse
    \/ ManipNestedAwait
    \/ ConsumeEvent
    \/ ConsumeTimeout
    \/ ExitLoop
    \/ ConsumerClose
    \/ EmitFinalDone
    \/ RunFinish

Spec == Init /\ [][Next]_vars

\* ================================================================= claims
\* the analysis.update events of the output stream that carry a chunk of
\* service s
IsUpdateOf(i, s) ==
    /\ out[i].event = "analysis.update"
    /\ out[i].service = s
IsTerminal(c) == c.partial = "false"
IsFinalChunk(c) == c.kind = "chunk" /\ c.phase = "final" /\ c.partial = "false"

\* C1: for every request handled by stream_run exactly one analysis.done
\* event is emitted and it is the last event of the stream: no event of any
\* kind follows an analysis.done.
C1_DoneIsSingleAndLast ==
    \A i \in 1..Len(out) : out[i].event = "analysis.done" => i = Len(out)

\* C2: for each service at most one terminal chunk (partial=false) appears
\* in the output stream, and after it no further chunk of that service
\* appears.
C2_NothingAfterTerminalChunk ==
    \A s \in TaskServices : \A i, j \in 1..Len(out) :
        (i < j /\ IsUpdateOf(i, s) /\ IsUpdateOf(j, s)) => ~IsTerminal(out[i].payload)

\* C3: the stream_analyze of every service, for every input, emits at least
\* one chunk with phase="final" and partial=false: a stream that has ended
\* has emitted one.
C3_StreamEmitsFinalChunk ==
    \A s \in TaskServices :
        tpc[s] = "done" => \E i \in 1..Len(emitted[s]) : IsFinalChunk(emitted[s][i])

\* C4: the final chunk of a service appears in the stream only after the
\* service has written its terminal result to ctx.service_results[service].
C4_ResultWrittenBeforeFinalChunk ==
    \A s \in TaskServices : \A i \in 1..Len(out) :
        (IsUpdateOf(i, s) /\ IsFinalChunk(out[i].payload)) => service_results[s] # "unset"

\* C5: within one service the chunk_index values of the chunks it emits are
\* 0, 1, 2, ... without gap, repeat or missing index, on success paths and
\* on error paths.
C5_ChunkIndexContiguous ==
    \A s \in TaskServices : \A i \in 1..Len(emitted[s]) : emitted[s][i].idx = i - 1

\* C6: ctx.transcript_final, once set to a value, is never overwritten by
\* any writer.
C6_TranscriptFinalWriteOnce ==
    [][transcript_final # NoneT => transcript_final' = transcript_final]_vars

\* C7: the length of ctx.transcript_partial never decreases over the life of
\* a request.
C7_TranscriptPartialGrows ==
    [][TextLen(transcript_partial') >= TextLen(transcript_partial)]_vars

\* C8: when a service raises, the failure is reported as a final chunk of
\* that service with errors populated, and the runner continues: at the end
\* every other started service has reached its terminal chunk and its result
\* is in the aggregate.
C8_ExceptionBecomesErrorChunk ==
    \A s \in aggregate.errors :
        /\ \E i \in 1..Len(out) :
              IsUpdateOf(i, s) /\ IsFinalChunk(out[i].payload) /\ out[i].payload.err
        /\ rpc = "done" =>
              \A r \in Tasks \ {s} :
                  /\ r \in DOMAIN aggregate.services
                  /\ \E i \in 1..Len(out) : IsUpdateOf(i, r) /\ IsTerminal(out[i].payload)

\* C9: the runner never raises into the output stream, whatever the
\* transcription service and the other services do.
C9_RunnerNeverRaises == rpc # "raised"

\* C10: a request with an empty transcript and no audio produces a single
\* analysis.done event without results, and no service is run for it.
C10_EmptyRequestRejected ==
    (~Truthy(transcript) /\ ~AudioTruthy(audio)) =>
        /\ \A s \in TaskServices : tpc[s] = "idle"
        /\ Len(out) <= 1
        /\ \A i \in 1..Len(out) : out[i].event = "analysis.done" /\ ~out[i].agg.present

\* the LLM-driven services and the transcript their gates look at
LLMServices == {"manipulation", "argument", "psychological"}
EffectiveTranscript == OrText(transcript_final, OrText(transcript_partial, transcript_text))
EndsWithErrorChunk(s) ==
    /\ Len(emitted[s]) > 0
    /\ IsFinalChunk(emitted[s][Len(emitted[s])])
    /\ emitted[s][Len(emitted[s])].err

\* C11: for a transcript of fewer than 10 words each LLM-driven service emits
\* exactly one chunk, a final chunk (partial=false) with an errors entry.
C11_ShortTranscriptSingleErrorChunk ==
    \A s \in LLMServices :
        (tpc[s] = "done" /\ WordCount(EffectiveTranscript) < MinWords) =>
            (Len(emitted[s]) = 1 /\ EndsWithErrorChunk(s))

\* C12: if the transcribe call fails, ctx.transcript_final is not set to a
\* usable text, no service is given a transcript derived from the failure
\* (the transcript of the request is the only one there is) and every
\* downstream LLM service ends with a final error chunk.
C12_TranscriptionFailureClosesGate ==
    transcription_failed =>
        /\ ~Truthy(transcript_final)
        /\ transcript_text = transcript
        /\ \A s \in LLMServices \cap Tasks : tpc[s] = "done" => EndsWithErrorChunk(s)

\* C13: when an LLM call made by a service fails all its retries, the final
\* chunk of that service carries an error entry.
C13_LLMFailureInFinalChunk ==
    \A s \in llm_failed : tpc[s] = "done" => EndsWithErrorChunk(s)

\* C14: if the consumer closes the output stream while services are running,
\* the runner cancels every in-flight service task: after the close no task
\* keeps running or puts a further event.
C14_CloseCancelsTasks ==
    [][rpc = "closed" => UNCHANGED <<tpc, tpass, event_queue, emitted>>]_vars

\* the services that compute metrics, and whether the stream of s has
\* yielded a final chunk
MetricServices == {"quantitative_metrics", "enhanced_metrics"}
HasFinalChunk(s) == \E i \in 1..Len(emitted[s]) : IsFinalChunk(emitted[s][i])

\* C15: with audio present the runner runs Transcription and AudioQuality
\* concurrently: the audio analysis task is started before the transcription
\* service has emitted its terminal chunk.
C15_AudioStartedDuringTranscription ==
    ("transcription" \in factories /\ "audio_analysis" \in factories
        /\ AudioTruthy(audio) /\ rpc = "first_done")
    => tpc["audio_analysis"] # "idle"

\* C16: the runner starts no Phase-D LLM service until ctx.transcript_final
\* is set or ctx.transcript_partial has at least 30 words.
C16_PhaseDGate ==
    \A s \in LLMServices :
        tpc[s] # "idle" =>
            (transcript_final # NoneT \/ WordCount(transcript_partial) >= 30)

\* C17: Credibility is run only after all Phase-C metric services of the
\* request have emitted their final chunks.
C17_CredibilityAfterMetrics ==
    tpc["credibility"] = "done" =>
        \A m \in MetricServices \cap Tasks : HasFinalChunk(m)

\* the step is one of service k's own task
Acted(k) ==
    \/ tpc'[k] # tpc[k]
    \/ tpass'[k] # tpass[k]
    \/ emitted'[k] # emitted[k]
    \/ tlast'[k] # tlast[k]

\* C18: no service writes, replaces or deletes the entry of another service
\* in ctx.service_results: service_results[name] changes only in a step of
\* the service whose name it is.
C18_OwnEntryOnly ==
    [][\A k \in Services :
          service_results'[k] # service_results[k] => (k \in TaskServices /\ Acted(k))]_vars

\* two services ran to their end in one request and an entry was written
C18_Witness ==
    /\ Cardinality(Tasks) = 2
    /\ \A s \in Tasks : tpc[s] = "done"
    /\ \E s \in Tasks : service_results[s] # "unset"

\* the payloads of the analysis.update events of service s in a sequence of
\* output events, and of its events in the queue
IsUpdateFor(e, s) == e.event = "analysis.update" /\ e.service = s
UpdatesOf(evs, s) ==
    LET sel == SelectSeq(evs, LAMBDA e : IsUpdateFor(e, s))
    IN  [i \in 1..Len(sel) |-> sel[i].payload]
QueuedOf(q, s) ==
    LET sel == SelectSeq(q, LAMBDA e : e.service = s)
    IN  [i \in 1..Len(sel) |-> sel[i].payload]

\* what has been emitted for service s, then what is still queued for it,
\* starts with the chunks its stream yielded, in the order it yielded them
InYieldOrder(s) ==
    LET seen == UpdatesOf(out, s) \o QueuedOf(event_queue, s)
    IN  /\ Len(seen) >= Len(emitted[s])
        /\ SubSeq(seen, 1, Len(emitted[s])) = emitted[s]

\* every event the consume loop emits is the oldest one of the queue
OldestFirst ==
    (rpc = "consume" /\ out' # out /\ event_queue # <<>>) =>
        /\ event_queue' = Tail(event_queue)
        /\ out'[Len(out) + 1] = UpdateEvent(Head(event_queue).service, Head(event_queue).payload)

\* C19: the output multiplexer is first-come first-served: events are
\* emitted in the order the tasks enqueued them, so the chunks of a service
\* appear in the output in the order the service yielded them.
C19_FirstComeFirstServed ==
    /\ [](\A s \in TaskServices : emitted[s] # <<>> => InYieldOrder(s))
    /\ [][OldestFirst]_vars

\* chunks of two services alternate in the output
C19_Witness ==
    \E i, j, k \in 1..Len(out) :
        /\ i < j /\ j < k
        /\ out[i].event = "analysis.update" /\ out[j].event = "analysis.update"
        /\ out[k].event = "analysis.update"
        /\ out[i].service \in TaskServices /\ out[j].service \in TaskServices
        /\ out[i].service = out[k].service
        /\ out[i].service # out[j].service
        /\ Len(emitted[out[i].service]) >= 2

\* C20: the aggregate of the final analysis.done has a results map equal to
\* ctx.service_results at completion: one entry per service that wrote its
\* result, keyed by service name.
C20_AggregateEqualsServiceResults ==
    rpc = "done" =>
        DOMAIN out[Len(out)].agg.services = {s \in Services : service_results[s] # "unset"}

\* C21: the first event of stream_run is an analysis.update for the service
\* "transcript", also for a text-only request, before any other event.
C21_FirstEventIsTranscript ==
    Len(out) > 0 =>
        (out[1].event = "analysis.update" /\ out[1].service = "transcript")

\* the analysis.progress events of a sequence of output events
ProgressOf(evs) == SelectSeq(evs, LAMBDA e : e.event = "analysis.progress")

\* C22: when stream_run finishes, the last analysis.progress reports
\* completed = total = the number of service tasks started, and the final
\* aggregate has exactly one entry for every started service, in whatever
\* order the services completed.
C22_AllServicesAccounted ==
    rpc = "done" =>
        LET prog == ProgressOf(out)
        IN  /\ DOMAIN out[Len(out)].agg.services = Tasks
            /\ Len(prog) = Cardinality(Tasks)
            /\ Tasks # {} =>
                 /\ prog[Len(prog)].completed = Cardinality(Tasks)
                 /\ prog[Len(prog)].total = Cardinality(Tasks)

\* a run of two services has finished, the task created second completed
\* first and one task ended with an error event
C22_Witness ==
    /\ rpc = "done"
    /\ Cardinality(Tasks) = 2
    /\ "quantitative_metrics" \in Tasks
    /\ ProgressOf(out)[1].service # "quantitative_metrics"
    /\ out[Len(out)].agg.errors # {}

\* C23: run called with an empty transcript and audio bytes completes
\* without raising and returns the aggregated result.
C23_RunReturnsGeneratedTranscript ==
    (run_result # "running" /\ ~Truthy(transcript) /\ AudioTruthy(audio)) =>
        run_result = "returned"

\* the event loop keeps running what can run
FairSpec == Spec /\ WF_vars(Next)

\* C24: no service blocks the stream indefinitely: every started invocation
\* of a service's stream_analyze, ManipulationService's included, finishes.
C24_EveryStreamFinishes ==
    \A s \in TaskServices : (tpc[s] = "start") ~> (tpc[s] = "done")

\* C25: a failing generation is retried at most max_retries times:
\* _generate_with_retries makes no more than max_retries + 1 attempts over
\* both SDK surfaces together, sleeps backoff_base * 2^(k-1) plus jitter
\* before retry k, and then stops by raising.
C25_BoundedRetries ==
    /\ attempts <= Max(0, max_retries + 1)
    /\ Len(sleeps) <= Max(0, max_retries)
    /\ attempts <= Len(sleeps) + 1
    /\ \A k \in 1..Len(sleeps) :
          sleeps[k].mult = Pow2(k - 1) /\ sleeps[k].jitter \in {0, 1}
    /\ cpc = "gen_raised" =>
          (attempts = Max(0, max_retries + 1) /\ Len(sleeps) = Max(0, max_retries))

\* every attempt failed with max_retries = 2 on an SDK with both surfaces
C25_Witness ==
    /\ cpc = "gen_raised"
    /\ hasGenerativeModel
    /\ max_retries = MaxRetries
    /\ attempts = MaxRetries + 1
    /\ Len(sleeps) = MaxRetries

\* the step that follows the failure of the last retry hands the caller the
\* fallback map, and json_stream goes on to make its chunks from it
FailureIsReturned ==
    (cpc = "gen_raised" /\ cop # "generate") =>
        /\ cret'.kind = "fallback"
        /\ cret'.n >= 1
        /\ cpc' = IF cop = "json_stream" THEN "simulate" ELSE "end"

\* C26: after the last retry fails the client does not raise to its caller:
\* query_json and query_json_schema return a fallback map containing an
\* error, and json_stream ends with a chunk that has done = true.
C26_ClientNeverRaises ==
    /\ []((cop \in {"query_json", "query_json_schema", "json_stream"})
             => cret.kind # "raised")
    /\ []((cop = "json_stream" /\ cpc = "end")
             => (Len(cout) > 0 /\ cout[Len(cout)].done))
    /\ [][FailureIsReturned]_vars

\* json_stream has ended after every retry of the batch query failed
C26_Witness ==
    /\ cop = "json_stream"
    /\ cpc = "end"
    /\ cret.kind = "fallback"
    /\ attempts = max_retries + 1

\* json_stream has run to its end on the simulated path over a dict
SimulatedEnded ==
    cop = "json_stream" /\ ~live /\ cpc = "end" /\ cret.kind = "dict"

\* C27: in simulated mode, for any dict the batch query returns (an empty
\* one included), json_stream emits at most 5 partial chunks with done =
\* false, then exactly one final chunk with done = true whose data is the
\* entire map, and nothing after it.
C27_SimulatedChunksThenWholeMap ==
    SimulatedEnded =>
        /\ Len(cout) >= 1
        /\ Len(cout) - 1 <= MaxSimulated
        /\ \A i \in 1..(Len(cout) - 1) : ~cout[i].done
        /\ cout[Len(cout)].done
        /\ cout[Len(cout)].kind = "map"
        /\ cout[Len(cout)].data = 1..cret.n

\* C28: in simulated mode the partial chunks grow monotonically: the data
\* of each partial chunk is a prefix of the final map in key order and
\* contains the data of every earlier chunk.
C28_SimulatedChunksGrow ==
    SimulatedEnded =>
        \A j \in 1..(Len(cout) - 1) :
            /\ \E m \in 0..cret.n : cout[j].data = 1..m
            /\ \A i \in 1..(j - 1) : cout[i].data \subseteq cout[j].data

\* the positions of the terminal events in the events of transcribe_stream
TerminalEvents == {i \in 1..Len(cout) : ~cout[i].interim}

\* C29: transcribe_stream emits zero or more interim events followed by
\* exactly one terminal event, which is the last event of the stream, on
\* the live path, on the fallback path, and when the live path fails
\* part-way or on closing the session.
C29_OneTerminalEventLast ==
    (cop = "transcribe_stream" /\ cpc = "end") => TerminalEvents = {Len(cout)}

\* the positions of the writes of ctx.transcript_final and of the terminal
\* chunk in what stream_analyze did
WritesOfFinal == {i \in 1..Len(ts_trace) : ts_trace[i] = "write"}
TerminalChunks == {i \in 1..Len(ts_trace) : ts_trace[i] = "final"}

\* C30: the Transcription service sets ctx.transcript_final exactly once,
\* and before it emits its terminal chunk, on the streaming path and on the
\* non-streaming path, whatever the transcript text is.
C30_FinalSetOnceBeforeTerminalChunk ==
    (cop = "stream_analyze" /\ cpc = "end") =>
        /\ Cardinality(WritesOfFinal) = 1
        /\ \A w \in WritesOfFinal : \A f \in TerminalChunks : w < f

\* C31: the client discovers the available models once per process:
\* repeated model selections do not trigger a new model-listing call.
C31_ModelsListedOnce ==
    listings <= 1

\* C32: QuantitativeMetrics queries the LLM for its final only when the
\* transcript has at least 20 words; for a shorter one it publishes a final
\* chunk with local metrics only and makes no LLM call.
C32_QuantGateTwentyWords ==
    tpc["quantitative_metrics"] \in {"q_llm", "q_analyze"} =>
        WordCount(transcript_text) >= 20

\* C33: services are constructed per request: no service instance, the
\* transcription and audio-analysis instances the runner uses included, is
\* used by two requests of the same runner.
C33_NoInstanceSharedByRequests ==
    \A u \in used : \A v \in used :
        u.request # v.request => u.instance # v.instance

\* C34: the path from the service tasks to the consumer is bounded: a task
\* blocks on emitting a chunk while the consumer has not taken its previous
\* one, so the queue never holds more than one unconsumed event of a task and
\* the number of buffered events never exceeds the number of tasks started.
C34_BoundedEventQueue ==
    \A s \in TaskServices : Len(QueuedOf(event_queue, s)) <= 1

\* what the analyze call of service s returns when the tasks run one after
\* the other in the order of their creation: a function of the request, of
\* the order of the factories and of what the LLM stub answered
MetricsBeforeCredibility ==
    "enhanced_metrics" \in Tasks /\ CreatedBefore("enhanced_metrics", "credibility")
SequentialResult(s) ==
    CASE s = "audio_analysis" -> AudioAnalyze(audio)
      [] s = "enhanced_metrics" -> LastNonPartial(EnhancedStream)
      [] s = "credibility" ->
            LET am == MetricsBeforeCredibility /\ acoustic_metrics
                lm == MetricsBeforeCredibility /\ linguistic_metrics
            IN  IF CredibilityRaisesOf(am) THEN Plain("str")
                ELSE LastNonPartial(CredibilityStreamOf(am, lm))
      [] s = "quantitative_metrics" -> Chunk("absent", "absent", NoIdx, FALSE)
      [] s = "psychological" ->
            IF WordCount(PsychEffective) < PsychMinWords
            THEN PsychInsufficient ELSE PsychFinal
      [] s = "argument" ->
            LET g == ArgGate(transcript_text, transcript_partial, transcript_final)
            IN  CASE g.outcome = "ended" -> DefaultAnalyze(g.chunks, Plain("none"))
                  [] g.outcome = "raise" -> Plain("str")
                  [] OTHER -> tlast["argument"]
      [] OTHER -> Plain("none")

NoMetricHasBaseline == ~baseline.given \/ ~baseline.entry.present

\* C37: with no baseline (no observed metric has a baseline entry) the
\* scoring yields a CredibilityScore with score 50, a confidence interval of
\* width at least 60, the category inconclusive and a quality warning.
C37_NoBaselineFallback ==
    (spc = "ended" /\ NoMetricHasBaseline) =>
        /\ scored.outcome = "CredibilityScore"
        /\ scored.credibility_score = 500
        /\ scored.confidence_interval_high - scored.confidence_interval_low >= 600
        /\ scored.credibility_category = "inconclusive"
        /\ scored.quality_warnings # {}

\* the contributions with direction * z > 0, and the size of the
\* contribution of the metric an indicator names
Suspicious(cs) == {k \in 1..Len(cs) : cs[k].direction * cs[k].z_score > 0}
ContributionSize(cs, n) ==
    Abs(cs[CHOOSE k \in 1..Len(cs) : cs[k].metric_name = n].contribution)

\* C38: primary_indicators holds at most 5 entries, exactly the contributions
\* with direction * z > 0 that have the largest |contribution|, listed
\* highest contribution first.
C38_TopSuspiciousContributions ==
    spc = "ended" =>
        LET cs == scored.contributions
            P == scored.primary_indicators
            sus == Suspicious(cs)
            listed == {P[i].metric_name : i \in 1..Len(P)}
        IN  /\ Len(P) = Min(5, Cardinality(sus))
            /\ Cardinality(listed) = Len(P)
            /\ listed \subseteq {cs[k].metric_name : k \in sus}
            /\ \A i, j \in 1..Len(P) :
                  i < j => ContributionSize(cs, P[i].metric_name)
                             >= ContributionSize(cs, P[j].metric_name)
            /\ \A k \in sus : cs[k].metric_name \notin listed =>
                  \A i \in 1..Len(P) :
                      ContributionSize(cs, P[i].metric_name) >= Abs(cs[k].contribution)

\* C39: within one request the runner drives the analysis of each service
\* once: after the stream of a service has ended the service is not run
\* again (no second stream, no second round of LLM calls), so no service is
\* ever in a second pass.
C39_AnalysisDrivenOnce ==
    \A s \in TaskServices : tpass[s] = 1

\* every task has finished and nothing is queued
AllFinishedAndConsumed ==
    /\ event_queue = <<>>
    /\ \A s \in Tasks : tpc[s] = "done"

\* the events of service s among the emitted events: one analysis.update
\* for every chunk of its stream and one for the event that ends its task
AllEventsEmitted(s) == Len(UpdatesOf(out, s)) = Len(emitted[s]) + 1

\* C40: no event is lost and the consume loop terminates: the loop is left
\* for the final analysis.done only when every task has finished and the
\* queue is empty, every event a task has put on the queue has then been
\* emitted as an analysis.update, and once every task has finished and the
\* queue is empty the loop is left.
C40_NoEventLostAndLoopExits ==
    /\ [](rpc \in {"final", "done"} =>
            /\ AllFinishedAndConsumed
            /\ \A s \in Tasks : AllEventsEmitted(s))
    /\ (rpc = "consume" /\ AllFinishedAndConsumed) ~> (rpc # "consume")

\* a run of two tasks has ended after a wait for an event timed out
C40_Witness ==
    /\ rpc = "done"
    /\ Cardinality(Tasks) = 2
    /\ \A s \in Tasks : Len(emitted[s]) >= 1

====
